---------------------------- MODULE Spec2Model ----------------------------
(***************************************************************************)
(* Model of the Game Translator browser extension: the content script      *)
(* (class GameTranslator), the popup handlers that drive it through        *)
(* chrome.storage and chrome.tabs.sendMessage, and the page the content    *)
(* script rewrites.                                                        *)
(*                                                                         *)
(* Strings are sequences of one-character strings.  The document is a heap *)
(* of nodes addressed by identity, because MutationObserver records and    *)
(* the TreeWalker refer to nodes, not to positions.                        *)
(***************************************************************************)
EXTENDS Integers, Sequences, FiniteSets, TLC

(***************************************************************************)
(* Bounds of the model.                                                    *)
(***************************************************************************)
MaxInserts == 1      \* elements the page inserts after load
MaxClicks == 2       \* clicks on the popup's toggle button
MaxSettings == 1     \* popup changes of targetLang / gamePackage
MaxObservers == 3    \* MutationObservers the content script may create
MaxText == 24        \* translateText is followed while its text is no longer
MaxHeap == 40        \* nodes of the document beyond which no more are created

(***************************************************************************)
(* Strings                                                                 *)
(***************************************************************************)
Upper == {"A","B","C","D","E","F","G","H","I","J","K","L","M",
          "N","O","P","Q","R","S","T","U","V","W","X","Y","Z"}
Lower == {"a","b","c","d","e","f","g","h","i","j","k","l","m",
          "n","o","p","q","r","s","t","u","v","w","x","y","z"}
Digit == {"0","1","2","3","4","5","6","7","8","9"}

\* String.prototype.toLowerCase on one ASCII character
toLowerCase(c) ==
  CASE c = "A" -> "a" [] c = "B" -> "b" [] c = "C" -> "c" [] c = "D" -> "d"
    [] c = "E" -> "e" [] c = "F" -> "f" [] c = "G" -> "g" [] c = "H" -> "h"
    [] c = "I" -> "i" [] c = "J" -> "j" [] c = "K" -> "k" [] c = "L" -> "l"
    [] c = "M" -> "m" [] c = "N" -> "n" [] c = "O" -> "o" [] c = "P" -> "p"
    [] c = "Q" -> "q" [] c = "R" -> "r" [] c = "S" -> "s" [] c = "T" -> "t"
    [] c = "U" -> "u" [] c = "V" -> "v" [] c = "W" -> "w" [] c = "X" -> "x"
    [] c = "Y" -> "y" [] c = "Z" -> "z" [] OTHER -> c

\* `const x = v; ...`: v is computed once and the rest uses its value
Let(v, rest(_)) == CHOOSE r \in {rest(x) : x \in {v}} : TRUE

\* s.startsWith(w, i-1): w occurs in s at (1-based) position i
startsWithAt(s, w, i) ==
  /\ i + Len(w) - 1 <= Len(s)
  /\ \A k \in 1..Len(w) : s[i + k - 1] = w[k]

\* text.includes(word)
includes(s, w) == \E i \in 1..(Len(s) + 1) : startsWithAt(s, w, i)

\* text.replace(new RegExp(escaped word, 'g'), () => r) for a non-empty word:
\* the escape makes every character of the word literal, the 'g' flag
\* replaces every occurrence found scanning left to right, and matching
\* resumes after the end of each match.
Min(S) == CHOOSE x \in S : \A y \in S : x <= y

RECURSIVE replaceAll(_, _, _, _)
replaceAll(s, w, r, i) ==
  LET hits == {k \in i..(Len(s) - Len(w) + 1) : startsWithAt(s, w, k)}
  IN IF hits = {} THEN SubSeq(s, i, Len(s))
     ELSE SubSeq(s, i, Min(hits) - 1) \o r \o replaceAll(s, w, r, Min(hits) + Len(w))

\* String.prototype.trim (only the space character is modelled as white space)
isBlank(s) == \A i \in 1..Len(s) : s[i] = " "

RECURSIVE flatten(_)
flatten(ss) == IF ss = <<>> THEN <<>> ELSE Head(ss) \o flatten(Tail(ss))

(***************************************************************************)
(* HTML serialisation (Element.outerHTML) of the keyword span              *)
(***************************************************************************)
kwClass == <<"g","a","m","e","-","t","r","a","n","s","l","a","t","o","r","-","k","e","y","w","o","r","d">>
processedClass == <<"g","a","m","e","-","t","r","a","n","s","l","a","t","o","r","-","p","r","o","c","e","s","s","e","d">>
tooltipClass == <<"g","a","m","e","-","t","r","a","n","s","l","a","t","o","r","-","t","o","o","l","t","i","p">>
classAttr == <<"c","l","a","s","s">>
definitionAttr == <<"d","a","t","a","-","d","e","f","i","n","i","t","i","o","n">>
spanTag == <<"s","p","a","n">>
divTag == <<"d","i","v">>
styleTag == <<"s","t","y","l","e">>
scriptTag == <<"s","c","r","i","p","t">>
bodyTag == <<"b","o","d","y">>

\* "escaping a string" of the HTML fragment serialisation algorithm
RECURSIVE escapeText(_)
escapeText(s) ==
  IF s = <<>> THEN <<>>
  ELSE (CASE Head(s) = "&" -> <<"&","a","m","p",";">>
          [] Head(s) = "<" -> <<"&","l","t",";">>
          [] Head(s) = ">" -> <<"&","g","t",";">>
          [] OTHER -> <<Head(s)>>) \o escapeText(Tail(s))

RECURSIVE escapeAttr(_)
escapeAttr(s) ==
  IF s = <<>> THEN <<>>
  ELSE (CASE Head(s) = "&" -> <<"&","a","m","p",";">>
          [] Head(s) = "\"" -> <<"&","q","u","o","t",";">>
          [] OTHER -> <<Head(s)>>) \o escapeAttr(Tail(s))

RECURSIVE serializeAttrs(_)
serializeAttrs(attrs) ==
  IF attrs = <<>> THEN <<>>
  ELSE <<" ">> \o Head(attrs).name \o <<"=","\"">> \o escapeAttr(Head(attrs).value)
       \o <<"\"">> \o serializeAttrs(Tail(attrs))

\* span.outerHTML of an element whose only child is one text node
outerHTML(tagName, attrs, textContent) ==
  <<"<">> \o tagName \o serializeAttrs(attrs) \o <<">">> \o escapeText(textContent)
  \o <<"<","/">> \o tagName \o <<">">>

(***************************************************************************)
(* HTML parsing (the innerHTML setter of a div).  The tokenizer follows    *)
(* the HTML standard's states for data, tags, attributes, bogus comments   *)
(* and the character references &amp; &lt; &gt; &quot;, taking a run of    *)
(* characters at a time; the only white space is " ".  The tree builder    *)
(* is the "in body" insertion mode for ordinary elements (span and unknown *)
(* tag names): a start tag opens an element, an end tag closes the nearest *)
(* open element of that name and is ignored when there is none.            *)
(***************************************************************************)
isAlpha(c) == c \in Upper \cup Lower
isAlnum(c) == c \in Upper \cup Lower \cup Digit

textToken(d) == [t |-> "text", name |-> d, attrs |-> <<>>]
commentToken(d) == [t |-> "comment", name |-> d, attrs |-> <<>>]
newTag(isEnd) == [end |-> isEnd, name |-> <<>>, attrs |-> <<>>, an |-> <<>>]

\* the first position from i on whose character is in cs (Len(s) + 1: none)
nextIn(s, i, cs) == Min({k \in i..Len(s) : s[k] \in cs} \cup {Len(s) + 1})
\* the first position from i on whose character is not a space
skipSpace(s, i) == Min({k \in i..Len(s) : s[k] # " "} \cup {Len(s) + 1})

lowerCase(str) == [k \in 1..Len(str) |-> toLowerCase(str[k])]

\* add an attribute to the tag being read; a duplicate name is dropped
addAttr(cur, value) ==
  [cur EXCEPT !.an = <<>>,
     !.attrs = IF \E k \in 1..Len(cur.attrs) : cur.attrs[k].name = cur.an
               THEN cur.attrs
               ELSE Append(cur.attrs, [name |-> cur.an, value |-> value])]

tagToken(cur) ==
  [t |-> IF cur.end THEN "end" ELSE "start", name |-> cur.name,
   attrs |-> IF cur.end THEN <<>> ELSE cur.attrs]

\* named character reference at position i (s[i] = "&"): the decoded
\* character and the number of characters consumed; len = 1 and ch = "&"
\* when the ampersand stands for itself.  inAttr: the historical exception
\* for attribute values (no semicolon and next character "=" or alphanumeric).
refNames == << <<"a","m","p">>, <<"l","t">>, <<"g","t">>, <<"q","u","o","t">> >>
refChars == << "&", "<", ">", "\"" >>
charRef(s, i, inAttr) ==
  LET hits == {k \in 1..Len(refNames) : startsWithAt(s, refNames[k], i + 1)}
  IN IF hits = {} THEN [len |-> 1, ch |-> "&"]
     ELSE LET k == CHOOSE h \in hits : TRUE
              after == i + 1 + Len(refNames[k])
          IN IF after <= Len(s) /\ s[after] = ";"
             THEN [len |-> Len(refNames[k]) + 2, ch |-> refChars[k]]
             ELSE IF inAttr /\ after <= Len(s) /\ (s[after] = "=" \/ isAlnum(s[after]))
                  THEN [len |-> 1, ch |-> "&"]
                  ELSE [len |-> Len(refNames[k]) + 1, ch |-> refChars[k]]

\* an attribute value with its character references decoded
RECURSIVE decodeValue(_, _)
decodeValue(v, i) ==
  LET j == nextIn(v, i, {"&"})
  IN IF j > Len(v) THEN SubSeq(v, i, Len(v))
     ELSE SubSeq(v, i, j - 1) \o <<charRef(v, j, TRUE).ch>>
          \o decodeValue(v, j + charRef(v, j, TRUE).len)

\* The tokenizer.  st is the tokenizer state entered at position i, cur the
\* tag token being read, out the tokens emitted so far.  End of input
\* inside a tag drops the tag.
RECURSIVE tokenize(_, _, _, _, _)
tokenize(s, i, st, cur, out) ==
  IF i > Len(s) THEN out
  ELSE
  CASE st = "data" ->
         LET j == nextIn(s, i, {"<", "&"})
             run == IF j > i THEN Append(out, textToken(SubSeq(s, i, j - 1))) ELSE out
         IN IF j > Len(s) THEN run
            ELSE IF s[j] = "&"
            THEN tokenize(s, j + charRef(s, j, FALSE).len, "data", cur,
                          Append(run, textToken(<<charRef(s, j, FALSE).ch>>)))
            ELSE IF j + 1 <= Len(s) /\ isAlpha(s[j + 1])
            THEN tokenize(s, j + 1, "tagName", newTag(FALSE), run)
            ELSE IF j + 1 <= Len(s) /\ s[j + 1] = "/"
            THEN (IF j + 2 > Len(s) THEN Append(run, textToken(<<"<", "/">>))
                  ELSE IF isAlpha(s[j + 2])
                  THEN tokenize(s, j + 2, "tagName", newTag(TRUE), run)
                  ELSE IF s[j + 2] = ">" THEN tokenize(s, j + 3, "data", cur, run)
                  ELSE tokenize(s, j + 2, "bogusComment", cur, run))
            ELSE tokenize(s, j + 1, "data", cur, Append(run, textToken(<<"<">>)))
    [] st = "bogusComment" ->
         LET j == nextIn(s, i, {">"})
         IN tokenize(s, j + 1, "data", cur, Append(out, commentToken(SubSeq(s, i, j - 1))))
    [] st = "tagName" ->
         LET j == nextIn(s, i, {" ", "/", ">"})
         IN tokenize(s, j, "afterAttr", [cur EXCEPT !.name = lowerCase(SubSeq(s, i, j - 1))], out)
    [] st = "afterAttr" ->
         \* before / after attribute name, after attribute value, self-closing
         LET j == skipSpace(s, i)
         IN IF j > Len(s) THEN out
            ELSE IF s[j] = ">" THEN tokenize(s, j + 1, "data", cur, Append(out, tagToken(cur)))
            ELSE IF s[j] = "/" THEN tokenize(s, j + 1, "afterAttr", cur, out)
            ELSE tokenize(s, j, "attrName", cur, out)
    [] st = "attrName" ->
         \* the first character belongs to the name even when it is "="
         LET j == nextIn(s, i + 1, {" ", "/", ">", "="})
             named == [cur EXCEPT !.an = lowerCase(SubSeq(s, i, j - 1))]
             k == skipSpace(s, j)
         IN IF k <= Len(s) /\ s[k] = "="
            THEN tokenize(s, k + 1, "attrValue", named, out)
            ELSE IF k > Len(s) THEN out
            ELSE tokenize(s, k, "afterAttr", addAttr(named, <<>>), out)
    [] st = "attrValue" ->
         LET j == skipSpace(s, i)
         IN IF j > Len(s) THEN out
            ELSE IF s[j] = "\"" \/ s[j] = "'"
            THEN LET e == nextIn(s, j + 1, {s[j]})
                 IN tokenize(s, e + 1, "afterAttr",
                             addAttr(cur, decodeValue(SubSeq(s, j + 1, e - 1), 1)), out)
            ELSE IF s[j] = ">"
            THEN tokenize(s, j, "afterAttr", addAttr(cur, <<>>), out)
            ELSE LET e == nextIn(s, j, {" ", ">"})
                 IN tokenize(s, e, "afterAttr",
                             addAttr(cur, decodeValue(SubSeq(s, j, e - 1), 1)), out)

(***************************************************************************)
(* Tree construction.  Parsed nodes are nested records:                    *)
(*   [type, tagName, attributes, data, childNodes]                         *)
(***************************************************************************)
textTree(d) == [type |-> "text", tagName |-> <<>>, attributes |-> <<>>,
                data |-> d, childNodes |-> <<>>]
commentTree(d) == [type |-> "comment", tagName |-> <<>>, attributes |-> <<>>,
                   data |-> d, childNodes |-> <<>>]
elementTree(tag, attrs, kids) ==
  [type |-> "element", tagName |-> tag, attributes |-> attrs,
   data |-> <<>>, childNodes |-> kids]

\* insert characters: extend the last child when it is a text node
appendText(kids, d) ==
  IF kids # <<>> /\ kids[Len(kids)].type = "text"
  THEN [kids EXCEPT ![Len(kids)].data = @ \o d]
  ELSE Append(kids, textTree(d))

\* pop the current node of the stack of open elements into its parent
popOpen(stack) ==
  LET n == Len(stack)
      top == stack[n]
  IN [SubSeq(stack, 1, n - 1) EXCEPT ![n - 1].childNodes = Append(@, top)]

RECURSIVE popTo(_, _)
popTo(stack, k) == IF Len(stack) < k THEN stack ELSE popTo(popOpen(stack), k)

RECURSIVE buildTree(_, _, _)
buildTree(toks, j, stack) ==
  IF j > Len(toks) THEN popTo(stack, 2)[1].childNodes
  ELSE
  LET tk == toks[j]
      n == Len(stack)
  IN CASE tk.t = "text" ->
            buildTree(toks, j + 1,
                      [stack EXCEPT ![n].childNodes = appendText(@, tk.name)])
       [] tk.t = "comment" ->
            buildTree(toks, j + 1,
                      [stack EXCEPT ![n].childNodes = Append(@, commentTree(tk.name))])
       [] tk.t = "start" ->
            buildTree(toks, j + 1,
                      Append(stack, elementTree(tk.name, tk.attrs, <<>>)))
       [] tk.t = "end" ->
            LET open == {k \in 2..n : stack[k].tagName = tk.name}
            IN IF open = {} THEN buildTree(toks, j + 1, stack)
               ELSE buildTree(toks, j + 1,
                              popTo(stack, CHOOSE k \in open : \A m \in open : m <= k))

\* tempDiv.innerHTML = html; the children of tempDiv
parseHTML(html) ==
  buildTree(tokenize(html, 1, "data", newTag(FALSE), <<>>), 1,
            <<elementTree(divTag, <<>>, <<>>)>>)

\* Node.textContent of a parsed tree
RECURSIVE treeText(_)
RECURSIVE treesText(_)
treeText(n) ==
  CASE n.type = "text" -> n.data
    [] n.type = "comment" -> <<>>
    [] OTHER -> treesText(n.childNodes)
treesText(ns) == IF ns = <<>> THEN <<>> ELSE treeText(Head(ns)) \o treesText(Tail(ns))

(***************************************************************************)
(* Game packages.  keys is Object.keys(conversionTable), in order; a       *)
(* missing array entry is the empty string (both are falsy in the code).   *)
(* gamePackage is held as an index into Packages, 0 standing for null.     *)
(* metadata and settings are optional fields of a package; the value of a  *)
(* setting is a JavaScript value held under its typeof.                    *)
(***************************************************************************)
jsBoolean(b) == [boolean |-> b]
jsNumber(n) == [number |-> n]
jsString(str) == [string |-> str]

pkgEngine ==
  [keys |-> <<"en", "ja">>,
   conversionTable |-> [en |-> <<<<"E","n","g","i","n","e">>, <<"F","i","r","e">>, <<"F","i","r","e"," ","S","t","a","f","f">>>>,
                        ja |-> <<<<"e","n","j","i","n">>, <<"h","i">>, <<"h","i"," ","t","s","u","e">>>>],
   definitionTable |-> [en |-> <<<<"C","o","r","e">>>>,
                        ja |-> <<<<>>, <<"k","a","j","i">>>>]]

\* the term "hi" of the first source language is part of "hi tsue" of the second
pkgFire ==
  [keys |-> <<"ja", "zh", "en">>,
   conversionTable |-> [ja |-> <<<<"h","i">>, <<"h","i","j","o">>>>,
                        zh |-> <<<<"h","u","o">>, <<"h","i"," ","t","s","u","e">>>>,
                        en |-> <<<<"F","i","r","e">>, <<"F","i","r","e"," ","S","t","a","f","f">>>>],
   definitionTable |-> [zh |-> <<<<>>, <<"s","t","a","f","f">>>>]]

\* a vocabulary about markup: "class" and "span" are source terms
pkgClass ==
  [keys |-> <<"en", "ja">>,
   conversionTable |-> [en |-> <<<<"E","l","e","m","e","n","t">>, <<"C","l","a","s","s">>, <<"S","p","a","n">>>>,
                        ja |-> <<<<"e","r","e","m","e","n","t","o">>, <<"c","l","a","s","s">>, <<"s","p","a","n">>>>],
   definitionTable |-> [en |-> <<<<"a"," ","t","a","g">>>>]]

\* a package with metadata and settings; matching is declared case-insensitive
pkgSkill ==
  [keys |-> <<"en", "ja">>,
   metadata |-> [name |-> <<"G","a","m","e">>, version |-> <<"1",".","0">>,
                 languages |-> <<"en", "ja">>],
   conversionTable |-> [en |-> <<<<"S","k","i","l","l">>>>,
                        ja |-> <<<<"s","u","k","i","r","u">>>>],
   definitionTable |-> [en |-> <<<<"a","b","i","l","i","t","y">>>>],
   settings |-> [caseSensitive |-> jsBoolean(FALSE),
                 enablePartialMatch |-> jsBoolean(TRUE),
                 tooltipDelay |-> jsNumber(300)]]

\* the ja array is shorter than the en array and its second entry is empty
pkgGap ==
  [keys |-> <<"en", "ja">>,
   conversionTable |-> [en |-> <<<<"S","w","o","r","d">>, <<"S","h","i","e","l","d">>, <<"B","o","w">>>>,
                        ja |-> <<<<"k","e","n">>, <<>>>>],
   definitionTable |-> [en |-> <<<<"b","l","a","d","e">>>>],
   settings |-> [caseSensitive |-> jsBoolean(TRUE),
                 enablePartialMatch |-> jsBoolean(TRUE),
                 tooltipDelay |-> jsNumber(300)]]

\* {conversionTable: {en: {}, ja: ['enjin']}, definitionTable: {}}: objects
\* names the languages whose conversionTable value is an object, not an array
pkgBroken ==
  [keys |-> <<"en", "ja">>,
   conversionTable |-> [en |-> <<>>, ja |-> <<<<"e","n","j","i","n">>>>],
   definitionTable |-> <<>>,
   objects |-> {"en"}]

\* the translations feed each other: the ja term "ab" of "a" holds the en
\* term "a", and with "a" makes the en term "ba", whose ja term is "a"
pkgFeed ==
  [keys |-> <<"en", "ja">>,
   conversionTable |-> [en |-> <<<<"a">>, <<"b","a">>>>, ja |-> <<<<"a","b">>, <<"a">>>>],
   definitionTable |-> <<>>,
   settings |-> [caseSensitive |-> jsBoolean(TRUE),
                 enablePartialMatch |-> jsBoolean(TRUE),
                 tooltipDelay |-> jsNumber(300)]]

Packages == <<pkgEngine, pkgFire, pkgClass, pkgSkill, pkgGap, pkgBroken, pkgFeed>>
NoPackage == 0

\* JSON objects that are not packages: one without definitionTable, one
\* without conversionTable, and {}
pkgNoDefinitions ==
  [keys |-> <<"en", "ja">>,
   conversionTable |-> [en |-> <<<<"E","n","g","i","n","e">>>>, ja |-> <<<<"e","n","j","i","n">>>>]]
pkgNoTerms == [definitionTable |-> [en |-> <<<<"C","o","r","e">>>>]]
emptyObject == <<>>

\* what the files offered to the popup parse to; a file names its value by
\* its index here, the packages first
FileValues == Packages \o <<pkgNoDefinitions, pkgNoTerms, emptyObject>>
Languages == {"en", "ja", "zh"}

\* Array.isArray(pkg.conversionTable[lang]), for a language of the table
isArray(pkg, lang) == "objects" \notin DOMAIN pkg \/ lang \notin pkg.objects

\* conversionTable[lang] / definitionTable[lang]; <<>> stands for undefined
tableGet(table, lang) == IF lang \in DOMAIN table THEN table[lang] ELSE <<>>
\* array[index]; <<>> stands for undefined
entryAt(array, index) == IF index \in 1..Len(array) THEN array[index] ELSE <<>>

(***************************************************************************)
(* GameTranslator.translateTextNode, the string rewrite (lines 206-250)    *)
(***************************************************************************)
\* Object.keys(conversionTable).filter(lang => lang !== this.targetLang)
sourceLanguages(pkg, targetLang) == SelectSeq(pkg.keys, LAMBDA lang : lang # targetLang)

\* sourceWords.map(...).filter(word non-empty).sort(longest first, stable)
RECURSIVE sortByLength(_, _)
sortByLength(words, rest) ==
  IF rest = {} THEN <<>>
  ELSE LET first == CHOOSE i \in rest : \A j \in rest :
                       \/ Len(words[i]) > Len(words[j])
                       \/ Len(words[i]) = Len(words[j]) /\ i <= j
       IN <<first>> \o sortByLength(words, rest \ {first})
wordIndices(sourceWords) ==
  sortByLength(sourceWords, {i \in 1..Len(sourceWords) : sourceWords[i] # <<>>})

\* (definitionTable[targetLang] && definitionTable[targetLang][index]) ||
\* (definitionTable[sourceLang] && definitionTable[sourceLang][index])
definitionFor(pkg, targetLang, sourceLang, index) ==
  LET own == entryAt(tableGet(pkg.definitionTable, targetLang), index)
  IN IF own # <<>> THEN own
     ELSE entryAt(tableGet(pkg.definitionTable, sourceLang), index)

\* the span built in the replace callback, as span.outerHTML
keywordSpan(translation, definition) ==
  outerHTML(spanTag,
            <<[name |-> classAttr, value |-> kwClass]>> \o
              (IF definition # <<>>
               THEN <<[name |-> definitionAttr, value |-> definition]>> ELSE <<>>),
            translation)

\* the loop over wordIndices with `if (!translation) continue;` left out
RECURSIVE rewriteWordsUnchecked(_, _, _, _, _, _)
rewriteWordsUnchecked(pkg, targetLang, sourceLang, order, k, acc) ==
  IF k > Len(order) THEN acc
  ELSE
  LET index == order[k]
      word == pkg.conversionTable[sourceLang][index]
      translation == entryAt(tableGet(pkg.conversionTable, targetLang), index)
      definition == definitionFor(pkg, targetLang, sourceLang, index)
  IN IF ~includes(acc.text, word)
     THEN rewriteWordsUnchecked(pkg, targetLang, sourceLang, order, k + 1, acc)
     ELSE rewriteWordsUnchecked(pkg, targetLang, sourceLang, order, k + 1,
            [acc EXCEPT !.text = replaceAll(acc.text, word,
                                            keywordSpan(translation, definition), 1),
                        !.modified = TRUE])

\* for (const {word, index} of wordIndices) { ... }
RECURSIVE rewriteWords(_, _, _, _, _, _)
rewriteWords(pkg, targetLang, sourceLang, order, k, acc) ==
  IF k > Len(order) THEN acc
  ELSE
  LET index == order[k]
      word == pkg.conversionTable[sourceLang][index]
      translation == entryAt(tableGet(pkg.conversionTable, targetLang), index)
      definition == definitionFor(pkg, targetLang, sourceLang, index)
  IN IF ~includes(acc.text, word) \/ translation = <<>>
     THEN rewriteWords(pkg, targetLang, sourceLang, order, k + 1, acc)
     ELSE rewriteWords(pkg, targetLang, sourceLang, order, k + 1,
            [acc EXCEPT !.text = replaceAll(acc.text, word,
                                            keywordSpan(translation, definition), 1),
                        !.modified = TRUE])

\* for (const sourceLang of sourceLanguages) { ... }
RECURSIVE rewriteLanguages(_, _, _, _, _)
rewriteLanguages(pkg, targetLang, langs, j, acc) ==
  IF j > Len(langs) THEN acc
  ELSE
  LET sourceWords == tableGet(pkg.conversionTable, langs[j])
      targetWords == tableGet(pkg.conversionTable, targetLang)
  IN IF targetLang \notin DOMAIN pkg.conversionTable
     THEN rewriteLanguages(pkg, targetLang, langs, j + 1, acc)
     \* sourceWords.map is not a function (line 222): a TypeError is thrown
     ELSE IF ~isArray(pkg, langs[j]) THEN [acc EXCEPT !.thrown = TRUE]
     ELSE IF sourceWords = <<>>
     THEN rewriteLanguages(pkg, targetLang, langs, j + 1, acc)
     ELSE rewriteLanguages(pkg, targetLang, langs, j + 1,
            rewriteWords(pkg, targetLang, langs[j], wordIndices(sourceWords), 1, acc))

\* the value of (text, modified) when the loops of translateTextNode end,
\* or thrown when an exception ends them
rewriteText(pkg, targetLang, text) ==
  rewriteLanguages(pkg, targetLang, sourceLanguages(pkg, targetLang), 1,
                   [text |-> text, modified |-> FALSE, thrown |-> FALSE])

(***************************************************************************)
(* Validator.validateGamePackage.  The errors are held as a set of         *)
(* [message, lang] (lang "" for a message that names no language): the     *)
(* order of the list is not modelled.  Every definitionTable value of a     *)
(* modelled package is an array.                                           *)
(***************************************************************************)
error(message, lang) == [message |-> message, lang |-> lang]

\* lines 19-27
metadataErrors(pkg) ==
  IF "metadata" \notin DOMAIN pkg THEN {error("Missing metadata", "")}
  ELSE (IF "name" \notin DOMAIN pkg.metadata \/ pkg.metadata.name = <<>>
        THEN {error("Missing package name", "")} ELSE {})
       \cup (IF "version" \notin DOMAIN pkg.metadata \/ pkg.metadata.version = <<>>
             THEN {error("Missing package version", "")} ELSE {})
       \cup (IF "languages" \notin DOMAIN pkg.metadata
             THEN {error("Invalid or missing languages array", "")} ELSE {})

\* lines 30-44
conversionErrors(pkg) ==
  IF "conversionTable" \notin DOMAIN pkg THEN {error("Missing conversion table", "")}
  ELSE LET arrays == {lang \in DOMAIN pkg.conversionTable : isArray(pkg, lang)}
           lengths == {Len(pkg.conversionTable[lang]) : lang \in arrays}
       IN {error("Invalid terms array for language", lang) :
              lang \in DOMAIN pkg.conversionTable \ arrays}
          \cup (IF Cardinality(lengths) > 1
                THEN {error("Inconsistent term array lengths across languages", "")}
                ELSE {})

\* The properties a parsed JSON object inherits from Object.prototype, each
\* with the .length of its value (a function: truthy, length = arity).
ObjectPrototype == [constructor |-> 1, toString |-> 0]

\* !!package.conversionTable[lang]: an own array is truthy, and so is an
\* inherited property
hasLanguage(table, lang) == lang \in DOMAIN table \/ lang \in DOMAIN ObjectPrototype

\* package.conversionTable[lang].length, where hasLanguage(table, lang) and
\* the value is an array or inherited
languageLength(table, lang) ==
  IF lang \in DOMAIN table THEN Len(table[lang]) ELSE ObjectPrototype[lang]

\* lines 47-61, for a package that has a conversionTable
definitionErrors(pkg) ==
  IF "definitionTable" \notin DOMAIN pkg THEN {}
  ELSE UNION { (IF ~hasLanguage(pkg.conversionTable, lang)
                THEN {error("Definition table contains unknown language", lang)} ELSE {})
               \* the length of an object is undefined, and no number exceeds it
               \cup (IF /\ hasLanguage(pkg.conversionTable, lang)
                        /\ isArray(pkg, lang)
                        /\ Len(pkg.definitionTable[lang])
                             > languageLength(pkg.conversionTable, lang)
                     THEN {error("Too many definitions for language", lang)} ELSE {}) :
               lang \in DOMAIN pkg.definitionTable }

\* typeof package.settings[name]; a missing property is undefined
typeOf(settings, name) ==
  IF name \in DOMAIN settings THEN CHOOSE type \in DOMAIN settings[name] : TRUE ELSE "undefined"

\* lines 64-74
settingsErrors(pkg) ==
  IF "settings" \notin DOMAIN pkg THEN {}
  ELSE (IF typeOf(pkg.settings, "caseSensitive") # "boolean"
        THEN {error("Invalid caseSensitive setting", "")} ELSE {})
       \cup (IF typeOf(pkg.settings, "enablePartialMatch") # "boolean"
             THEN {error("Invalid enablePartialMatch setting", "")} ELSE {})
       \cup (IF typeOf(pkg.settings, "tooltipDelay") # "number"
             THEN {error("Invalid tooltipDelay setting", "")} ELSE {})

\* validateGamePackage(package).  threw: package.conversionTable[lang] at
\* line 53 raises a TypeError when there is a definitionTable with an entry
\* and no conversionTable
validateGamePackage(pkg) ==
  IF /\ "conversionTable" \notin DOMAIN pkg
     /\ "definitionTable" \in DOMAIN pkg
     /\ DOMAIN pkg.definitionTable # {}
  THEN [threw |-> TRUE, isValid |-> FALSE, errors |-> {}]
  ELSE LET errors == metadataErrors(pkg) \cup conversionErrors(pkg)
                       \cup (IF "conversionTable" \in DOMAIN pkg
                             THEN definitionErrors(pkg) ELSE {})
                       \cup settingsErrors(pkg)
       IN [threw |-> FALSE, isValid |-> errors = {}, errors |-> errors]

NoValidation == [called |-> FALSE, package |-> <<>>,
                 result |-> [threw |-> FALSE, isValid |-> FALSE, errors |-> {}]]

(***************************************************************************)
(* TranslationService.  A service svc is [gamePackage, targetLang]: the    *)
(* package and language given to initialize (NoPackage before it).  Array  *)
(* indices are 1-based here; positions in a text are 0-based as in the     *)
(* code.  A returned null is the record with found = FALSE.                *)
(***************************************************************************)
\* text.indexOf(term)
indexOf(text, term) ==
  LET hits == {k \in 1..(Len(text) + 1) : startsWithAt(text, term, k)}
  IN IF hits = {} THEN -1 ELSE Min(hits) - 1

NoMatch == [found |-> FALSE, term |-> <<>>, index |-> 0, position |-> -1]

\* sourceTerms.forEach((term, index) => { ... }); best.term = <<>> stands for
\* a bestMatch that is null or the empty string (both make !bestMatch true)
RECURSIVE bestMatchFrom(_, _, _, _, _)
bestMatchFrom(sourceTerms, caseSensitive, text, index, best) ==
  IF index > Len(sourceTerms) THEN best
  ELSE LET term == sourceTerms[index]
           position == IF caseSensitive THEN indexOf(text, term)
                       ELSE indexOf(lowerCase(text), lowerCase(term))
       IN bestMatchFrom(sourceTerms, caseSensitive, text, index + 1,
            IF position # -1 /\ (best.term = <<>> \/ Len(term) > Len(best.term))
            THEN [found |-> term # <<>>, term |-> term, index |-> index,
                  position |-> position]
            ELSE best)

\* findBestMatch(text, sourceLang); every exception is caught and gives null
findBestMatch(svc, text, sourceLang) ==
  IF svc.gamePackage = NoPackage THEN NoMatch
  ELSE LET pkg == Packages[svc.gamePackage]
           sourceTerms == tableGet(pkg.conversionTable, sourceLang)
       IN IF sourceLang \notin DOMAIN pkg.conversionTable THEN NoMatch
          ELSE IF sourceTerms = <<>> THEN NoMatch
          \* this.settings is undefined: this.settings.caseSensitive throws
          ELSE IF "settings" \notin DOMAIN pkg THEN NoMatch
          ELSE bestMatchFrom(sourceTerms, pkg.settings.caseSensitive.boolean, text, 1, NoMatch)

\* the last call of findBestMatch and what it returned
NoBest == [called |-> FALSE, text |-> <<>>, sourceLang |-> "", match |-> NoMatch]

\* undefined: the translation is undefined (no entry at the index) and not ''
NoTranslation == [found |-> FALSE, translation |-> <<>>, definition |-> <<>>,
                  undefined |-> FALSE]

\* getTranslation(term, sourceLang); definition <<>> stands for null
getTranslation(svc, term, sourceLang) ==
  Let(findBestMatch(svc, term, sourceLang), LAMBDA match :
    IF ~match.found THEN NoTranslation
    ELSE LET pkg == Packages[svc.gamePackage]
         IN \* targetTerms is undefined: targetTerms[match.index] throws
            IF svc.targetLang \notin DOMAIN pkg.conversionTable THEN NoTranslation
            ELSE [found |-> TRUE,
                  translation |-> entryAt(pkg.conversionTable[svc.targetLang], match.index),
                  undefined |-> match.index > Len(pkg.conversionTable[svc.targetLang]),
                  definition |-> IF "definitionTable" \in DOMAIN pkg
                                 THEN entryAt(tableGet(pkg.definitionTable, svc.targetLang),
                                              match.index)
                                 ELSE <<>>])

(***************************************************************************)
(* TranslationService.translateText and its caller in DOMService.  A run   *)
(* is the state of one call: the local variables of translateText          *)
(* (text = translatedText, translations, last = lastMatch.position or -1   *)
(* for null), and as history the input, what was inserted, and for a call  *)
(* by DOMService.translateTextNode the innerHTML of the span that replaces *)
(* the text node (replaced).  translations is the Map as the sequence of   *)
(* its [key, value] in insertion order.                                    *)
(***************************************************************************)
NoRun == [pc |-> "idle", caller |-> "", input |-> <<>>, text |-> <<>>, sourceLang |-> "",
          translations |-> <<>>, last |-> -1, inserted |-> {}, replaced |-> FALSE,
          html |-> <<>>]

\* '' + undefined, `${null}`
undefinedText == <<"u","n","d","e","f","i","n","e","d">>
nullText == <<"n","u","l","l">>

\* translations.set(key, value)
mapSet(entries, key, value) ==
  IF \E k \in 1..Len(entries) : entries[k].key = key
  THEN [k \in 1..Len(entries) |->
          IF entries[k].key = key THEN [key |-> key, value |-> value] ELSE entries[k]]
  ELSE Append(entries, [key |-> key, value |-> value])

\* the span highlightTranslations puts around a term (line 354)
translatedTerm(term, definition) ==
  <<"<","s","p","a","n"," ","c","l","a","s","s","=","\"">>
    \o <<"t","r","a","n","s","l","a","t","e","d","-","t","e","r","m">>
    \o <<"\""," ","d","a","t","a","-","d","e","f","i","n","i","t","i","o","n","=","\"">>
    \o (IF definition = <<>> THEN nullText ELSE definition)
    \o <<"\"",">">> \o term \o <<"<","/","s","p","a","n",">">>

\* highlightTranslations(text, translations), lines 350-357; the terms of
\* the modelled packages hold no character that is special in a RegExp
RECURSIVE highlightTranslations(_, _, _)
highlightTranslations(text, translations, k) ==
  IF k > Len(translations) THEN text
  ELSE highlightTranslations(
         IF translations[k].key = <<>> THEN text
         ELSE replaceAll(text, translations[k].key,
                         translatedTerm(translations[k].key, translations[k].value), 1),
         translations, k + 1)

\* the end of translateText, and for DOMService.translateTextNode lines
\* 330-338 after it
returnText(run) ==
  IF run.caller = "dom" /\ run.text # run.input
  THEN [run EXCEPT !.pc = "returned", !.replaced = TRUE,
                   !.html = highlightTranslations(run.text, run.translations, 1)]
  ELSE [run EXCEPT !.pc = "returned"]

\* one turn of `while (true) { ... }` of translateText (lines 177-190)
translateTextTurn(svc, run) ==
  Let(findBestMatch(svc, run.text, run.sourceLang), LAMBDA match :
    IF ~match.found \/ (run.last # -1 /\ match.position = run.last) THEN returnText(run)
    ELSE Let(getTranslation(svc, match.term, run.sourceLang), LAMBDA translation :
           IF ~translation.found THEN returnText(run)
           ELSE Let(IF translation.undefined THEN undefinedText ELSE translation.translation,
                    LAMBDA inserted :
                  [run EXCEPT
                     !.text = SubSeq(run.text, 1, match.position) \o inserted
                                \o SubSeq(run.text, match.position + Len(match.term) + 1,
                                          Len(run.text)),
                     !.translations = mapSet(@, inserted, translation.definition),
                     !.inserted = @ \cup {inserted},
                     !.last = match.position])))

(***************************************************************************)
(* The document: a heap of nodes.  Node 1 is document.body.  A node is     *)
(*   [type, tagName, attributes, data, childNodes, parentNode]             *)
(* with childNodes a sequence of node ids and parentNode an id (0: null).  *)
(***************************************************************************)
body == 1

heapNode(tree, parent) ==
  [type |-> tree.type, tagName |-> tree.tagName, attributes |-> tree.attributes,
   data |-> tree.data, childNodes |-> <<>>, parentNode |-> parent]

\* create the nodes of parsed trees in the heap, as children of parent
RECURSIVE allocTrees(_, _, _)
allocTrees(heap, trees, parent) ==
  IF trees = <<>> THEN [heap |-> heap, ids |-> <<>>]
  ELSE LET id == Len(heap) + 1
           kids == allocTrees(Append(heap, heapNode(Head(trees), parent)),
                              Head(trees).childNodes, id)
           rest == allocTrees([kids.heap EXCEPT ![id].childNodes = kids.ids],
                              Tail(trees), parent)
       IN [heap |-> rest.heap, ids |-> <<id>> \o rest.ids]

\* element.getAttribute(name); <<>> when absent
getAttribute(node, name) ==
  LET hits == {k \in 1..Len(node.attributes) : node.attributes[k].name = name}
  IN IF hits = {} THEN <<>> ELSE node.attributes[Min(hits)].value

\* the tokens of a class attribute value (split on white space)
RECURSIVE classTokens(_, _)
classTokens(value, i) ==
  LET j == skipSpace(value, i)
      e == nextIn(value, j, {" "})
  IN IF j > Len(value) THEN <<>>
     ELSE <<SubSeq(value, j, e - 1)>> \o classTokens(value, e)

\* element.classList.contains(cls)
classListContains(node, cls) ==
  LET tokens == classTokens(getAttribute(node, classAttr), 1)
  IN \E k \in 1..Len(tokens) : tokens[k] = cls

RECURSIVE joinTokens(_)
joinTokens(tokens) ==
  IF tokens = <<>> THEN <<>>
  ELSE IF Len(tokens) = 1 THEN tokens[1]
  ELSE tokens[1] \o <<" ">> \o joinTokens(Tail(tokens))

setClass(node, tokens) ==
  LET hits == {k \in 1..Len(node.attributes) : node.attributes[k].name = classAttr}
  IN IF hits = {}
     THEN [node EXCEPT !.attributes =
             Append(@, [name |-> classAttr, value |-> joinTokens(tokens)])]
     ELSE [node EXCEPT !.attributes[Min(hits)].value = joinTokens(tokens)]

\* element.classList.add(cls)
classListAdd(node, cls) ==
  IF classListContains(node, cls) THEN node
  ELSE setClass(node, Append(classTokens(getAttribute(node, classAttr), 1), cls))

\* element.classList.remove(cls)
classListRemove(node, cls) ==
  IF ~classListContains(node, cls) THEN node
  ELSE setClass(node, SelectSeq(classTokens(getAttribute(node, classAttr), 1),
                                LAMBDA tok : tok # cls))

\* the node is in the subtree of document.body
RECURSIVE inDocument(_, _)
inDocument(heap, id) ==
  IF id = body THEN TRUE
  ELSE IF id = 0 THEN FALSE
  ELSE inDocument(heap, heap[id].parentNode)

\* the text nodes below a node, in document order (TreeWalker, SHOW_TEXT)
RECURSIVE textNodesOf(_, _)
RECURSIVE textNodesUnder(_, _)
textNodesOf(heap, ids) ==
  IF ids = <<>> THEN <<>>
  ELSE (IF heap[Head(ids)].type = "text" THEN <<Head(ids)>>
        ELSE textNodesUnder(heap, Head(ids))) \o textNodesOf(heap, Tail(ids))
textNodesUnder(heap, id) == textNodesOf(heap, heap[id].childNodes)

\* node.textContent
textContent(heap, id) ==
  IF heap[id].type = "text" THEN heap[id].data
  ELSE LET texts == textNodesUnder(heap, id)
       IN flatten([k \in 1..Len(texts) |-> heap[texts[k]].data])

\* a childList mutation record is queued for every connected observer
\* (each observes document.body with subtree: true)
queueRecord(observers, heap, target, addedNodes) ==
  IF ~inDocument(heap, target) THEN observers
  ELSE [o \in 1..Len(observers) |->
          IF observers[o].connected
          THEN [observers[o] EXCEPT !.records = Append(@, addedNodes)]
          ELSE observers[o]]

\* parentNode.replaceChild(fragment, node): node is detached and the
\* fragment's children (already in the heap, parent set) take its place
replaceChild(heap, node, ids) ==
  LET parent == heap[node].parentNode
      kids == heap[parent].childNodes
      at == CHOOSE k \in 1..Len(kids) : kids[k] = node
  IN [heap EXCEPT ![parent].childNodes =
                     SubSeq(kids, 1, at - 1) \o ids \o SubSeq(kids, at + 1, Len(kids)),
                  ![node].parentNode = 0]

(***************************************************************************)
(* GameTranslator.  A world w is the part of the state its methods touch:  *)
(*   w.heap, w.observers,                                                  *)
(*   w.isEnabled, w.targetLang, w.gamePackage, w.observer  (its fields),   *)
(*   w.scan     the record of full scans (history, see translatePage)      *)
(*   w.thrown   an exception is propagating out of the method              *)
(*   w.passed   the nodes translateTextNode was called with (history)      *)
(*   w.double   translateTextNode was called twice with one node (history) *)
(***************************************************************************)
translateTextNode(called, node) ==
  Let([called EXCEPT !.double = @ \/ node \in called.passed, !.passed = @ \cup {node}],
      LAMBDA w :
  LET n == w.heap[node]
      parent == n.parentNode
  IN IF isBlank(n.data) THEN w
     ELSE IF w.gamePackage = NoPackage THEN w
     ELSE IF parent # 0 /\ (\/ classListContains(w.heap[parent], tooltipClass)
                            \/ classListContains(w.heap[parent], kwClass))
     THEN w
     ELSE Let(rewriteText(Packages[w.gamePackage], w.targetLang, n.data), LAMBDA result :
            IF result.thrown THEN [w EXCEPT !.thrown = TRUE]
            ELSE IF ~result.modified \/ parent = 0 THEN w
            ELSE Let(allocTrees(w.heap, parseHTML(result.text), parent), LAMBDA made :
                   [w EXCEPT !.heap = replaceChild(made.heap, node, made.ids),
                             !.observers = queueRecord(@, w.heap, parent, made.ids)])))

\* while (node = walker.nextNode()) this.translateTextNode(node);
\* nextNode() continues from walker.currentNode: once translateTextNode has
\* replaced that node it has neither a sibling nor a parent, nextNode()
\* returns null and the loop ends.  An exception of translateTextNode ends
\* the loop as well.
RECURSIVE walk(_, _, _)
walk(w, texts, k) ==
  IF k > Len(texts) THEN w
  ELSE Let(translateTextNode(w, texts[k]), LAMBDA next :
         IF next.thrown \/ next.heap[texts[k]].parentNode = 0 THEN next
         ELSE walk(next, texts, k + 1))

\* translateElement with its first statement (the processed-marker test) left out
translateElementUnguarded(w, element) ==
  Let(textNodesUnder(w.heap, element), LAMBDA texts :
    Let(walk(w, texts, 1), LAMBDA walked :
      IF walked.thrown THEN walked
      ELSE [walked EXCEPT !.heap[element] = classListAdd(@, processedClass)]))

\* translateElement(element), lines 174-190
translateElement(w, element) ==
  IF classListContains(w.heap[element], processedClass) THEN w
  ELSE Let(textNodesUnder(w.heap, element), LAMBDA texts :
         Let(walk(w, texts, 1), LAMBDA walked :
           IF walked.thrown THEN walked
           ELSE [walked EXCEPT !.heap[element] = classListAdd(@, processedClass)]))

\* nodes.forEach(...), lines 164-172; an exception ends the forEach
RECURSIVE translateNodes(_, _, _)
translateNodes(w, nodes, k) ==
  IF k > Len(nodes) \/ w.thrown THEN w
  ELSE Let((CASE w.heap[nodes[k]].type = "text" -> translateTextNode(w, nodes[k])
              [] w.heap[nodes[k]].type = "element" -> translateElement(w, nodes[k])
              [] OTHER -> w),
           LAMBDA next : translateNodes(next, nodes, k + 1))

NoScan == [count |-> 0, heap |-> <<>>, targetLang |-> "", gamePackage |-> NoPackage,
           repeated |-> FALSE, modified |-> FALSE, double |-> FALSE]

\* translatePage.  w.scan remembers the document and the settings at the
\* end of the latest full scan, whether this scan ran on exactly that
\* document with those settings (repeated), and whether it changed the
\* document (modified).
translatePage(w) ==
  IF w.gamePackage = NoPackage THEN w
  ELSE Let(translateNodes(w, <<body>>, 1), LAMBDA after :
         IF after.thrown THEN after ELSE
         [after EXCEPT !.scan =
             [count |-> IF w.scan.count < 2 THEN w.scan.count + 1 ELSE 2,
              heap |-> after.heap,
              targetLang |-> w.targetLang,
              gamePackage |-> w.gamePackage,
              repeated |-> /\ w.scan.count > 0
                           /\ w.scan.heap = w.heap
                           /\ w.scan.targetLang = w.targetLang
                           /\ w.scan.gamePackage = w.gamePackage,
              modified |-> after.heap # w.heap,
              double |-> w.scan.double]])

setupObserver(w) ==
  [w EXCEPT !.observers = Append(@, [connected |-> TRUE, records |-> <<>>]),
            !.observer = Len(w.observers) + 1]

\* startTranslation; setupObserver is not reached when translatePage throws
startTranslation(w) ==
  Let(translatePage(w), LAMBDA scanned :
    IF scanned.thrown THEN scanned ELSE setupObserver(scanned))

\* revertTranslations with its forEach left out
revertNothing(w) == w

revertTranslations(w) ==
  [w EXCEPT !.heap = [id \in 1..Len(w.heap) |->
                        IF w.heap[id].type = "element" /\ inDocument(w.heap, id)
                        THEN classListRemove(w.heap[id], processedClass)
                        ELSE w.heap[id]]]

stopTranslation(w) ==
  Let(IF w.observer # 0
      THEN [w EXCEPT !.observers[w.observer] = [connected |-> FALSE, records |-> <<>>],
                     !.observer = 0]
      ELSE w,
      LAMBDA disconnected : revertTranslations(disconnected))

\* createTooltip: a div with class game-translator-tooltip appended to body
createTooltip(w) ==
  Let(allocTrees(w.heap,
        <<elementTree(divTag, <<[name |-> classAttr, value |-> tooltipClass]>>, <<>>)>>,
        body),
      LAMBDA made :
        [w EXCEPT !.heap = [made.heap EXCEPT ![body].childNodes = @ \o made.ids],
                  !.observers = queueRecord(@, w.heap, body, made.ids)])

(***************************************************************************)
(* State                                                                   *)
(***************************************************************************)
VARIABLES
  heap,           \* the document
  observers,      \* the MutationObservers created so far: [connected, records]
  translator,     \* the GameTranslator: pc, its fields, pending updateSettings
  scan,           \* history: the latest full scan (see translatePage)
  lastOp,         \* history: the latest thing the translator did
  storage,        \* chrome.storage.local
  storageEvents,  \* chrome.storage.onChanged events on their way to the translator
  messages,       \* chrome.tabs.sendMessage messages on their way to the translator
  popup,          \* the popup: pending callbacks, button label, event counts
  page,           \* history: the text the page wrote, and what it inserted
  rewrite,        \* stage of the single-node rewrite (SpecRewrite only)
  service,        \* a TranslationService and its latest call (SpecService only)
  validation,     \* the latest call of the Validator (SpecValidator only)
  background,     \* the background script and its tabs (SpecBackground only)
  callbacks       \* history: the observer callback has run an odd number of times

vars == <<heap, observers, translator, scan, lastOp, storage, storageEvents,
          messages, popup, page, rewrite, service, validation, background, callbacks>>

\* the state of the modules the content script and the popup do not use
libraries == <<service, validation, background>>

\* the tabs of the browser, all open at first; NoTab is a sender without tab
Tabs == {1, 2}
NoTab == 0

\* A call of sendMessageToContentScript(tabId, message).  pc: where it is
\* waiting ("ping", "inject", "wait" for the timer, "sending") or how it
\* ended; ping and inject: how chrome.tabs.sendMessage({action: 'ping'}) and
\* chrome.scripting.executeScript settled; sent: times the message was sent
NoCall == [pc |-> "idle", tabId |-> NoTab, ping |-> "none", inject |-> "none", sent |-> 0]

\* readyTabs, the open tabs, the tabs whose content script listens, the
\* call in progress and the listener or continuation that ran last
NoBackground == [readyTabs |-> {}, open |-> Tabs, scripts |-> {}, call |-> NoCall,
                 event |-> [kind |-> "none", tab |-> NoTab]]

\* the service before initialize, with no call made
NoService == [gamePackage |-> NoPackage, targetLang |-> "", called |-> FALSE,
              term |-> <<>>, sourceLang |-> "", result |-> NoTranslation, run |-> NoRun,
              best |-> NoBest]

p(text) == elementTree(<<"p">>, <<>>, <<textTree(text)>>)

\* the pages the content script is loaded into (children of body)
Pages ==
  { << p(<<"T","h","e"," ","e","n","j","i","n"," ","r","o","a","r","s">>), p(<<"E","n","g","i","n","e"," ","h","i">>) >> }

\* the elements a page script appends to body later
InsertTrees ==
  { p(<<"e","n","j","i","n">>),
    elementTree(<<"p">>, <<>>, <<textTree(<<"h","i"," ">>),
                                 elementTree(<<"q">>, <<>>, <<textTree(<<"e","n","j","i","n">>)>>)>>),
    elementTree(styleTag, <<>>, <<textTree(<<".","h","i","{","}">>)>>) }

\* A file picked in the popup.  kind: "none" (the dialog was cancelled),
\* "unreadable" (FileReader fails), "malformed" (not JSON), "null" (the
\* JSON text null) or "object", with FileValues[package] what it parses to.
NoFile == [kind |-> "none", package |-> NoPackage]
objectFile(i) == [kind |-> "object", package |-> i]
Files ==
  {[kind |-> k, package |-> NoPackage] : k \in {"none", "unreadable", "malformed", "null"}}
    \cup {objectFile(i) : i \in 1..Len(FileValues)}

\* the packages chrome.storage.local may hold when the page is loaded
StoredPackages == {NoPackage, 1, 6}

\* the files and languages the popup offers in Spec
UploadFiles == {objectFile(1), objectFile(2)}
TargetLangs == {"en", "ja"}

bodyNode == [type |-> "element", tagName |-> bodyTag, attributes |-> <<>>,
             data |-> <<>>, childNodes |-> <<>>, parentNode |-> 0]

\* the document of a page: body with the page's trees as children
loadPage(trees) ==
  LET made == allocTrees(<<bodyNode>>, trees, body)
  IN [made.heap EXCEPT ![body].childNodes = made.ids]

Init ==
  /\ \E trees \in Pages :
       /\ heap = loadPage(trees)
       /\ page = [text |-> treesText(trees), inserts |-> 0, element |-> 0]
  /\ observers = <<>>
  \* the constructor's field values; init() is waiting for storage.get
  /\ translator = [pc |-> "loading", isEnabled |-> FALSE, targetLang |-> "en",
                   gamePackage |-> NoPackage, observer |-> 0, updates |-> 0]
  /\ scan = NoScan
  /\ lastOp = "none"
  \* what earlier popup sessions left in storage
  /\ \E enabled \in BOOLEAN, pkg \in StoredPackages :
       storage = [isEnabled |-> enabled, targetLang |-> "en", gamePackage |-> pkg]
  /\ storageEvents = <<>>
  /\ messages = <<>>
  /\ popup = [gets |-> <<>>, sends |-> <<>>, notifies |-> 0, label |-> storage.isEnabled,
              clicks |-> 0, settings |-> 0, uploads |-> 0, file |-> NoFile, status |-> ""]
  /\ rewrite = "off"
  /\ service = NoService
  /\ validation = NoValidation
  /\ background = NoBackground
  /\ callbacks = FALSE

\* the world the translator's methods work on, and its write-back
World ==
  [heap |-> heap, observers |-> observers, scan |-> scan,
   isEnabled |-> translator.isEnabled, targetLang |-> translator.targetLang,
   gamePackage |-> translator.gamePackage, observer |-> translator.observer,
   thrown |-> FALSE, passed |-> {}, double |-> FALSE]

Commit(w) ==
  /\ heap' = w.heap
  /\ observers' = w.observers
  /\ scan' = w.scan
  /\ translator' = [translator EXCEPT !.isEnabled = w.isEnabled,
                                      !.targetLang = w.targetLang,
                                      !.gamePackage = w.gamePackage,
                                      !.observer = w.observer]

\* mutation records are delivered in a microtask, before any other task runs
Quiet == \A o \in 1..Len(observers) : observers[o].records = <<>>

\* a task of the translator may create one more observer
Room == Len(observers) < MaxObservers

(***************************************************************************)
(* The content script                                                      *)
(***************************************************************************)
\* history: the handler changes targetLang or gamePackage of the translator
SettingsDiffer(w) ==
  w.targetLang # translator.targetLang \/ w.gamePackage # translator.gamePackage

\* init() after `await chrome.storage.local.get(...)` (lines 21-69)
InitResolve ==
  /\ Quiet /\ Room
  /\ translator.pc = "loading"
  /\ \E loaded \in {[World EXCEPT !.isEnabled = storage.isEnabled,
                                    !.targetLang = storage.targetLang,
                                    !.gamePackage = storage.gamePackage]} :
     \E ready \in {createTooltip(loaded)} :
     \E starts \in {ready.isEnabled /\ ready.gamePackage # NoPackage} :
     \E w \in {IF starts THEN startTranslation(ready) ELSE ready} :
        /\ heap' = w.heap
        /\ observers' = w.observers
        /\ scan' = w.scan
        \* an exception of startTranslation (line 38) ends init() before the
        \* storage listener is registered (line 42)
        /\ translator' = [translator EXCEPT !.pc = IF w.thrown THEN "halted" ELSE "ready",
                                            !.isEnabled = w.isEnabled,
                                            !.targetLang = w.targetLang,
                                            !.gamePackage = w.gamePackage,
                                            !.observer = w.observer]
        /\ lastOp' = IF w.thrown THEN "thrown" ELSE IF starts THEN "start" ELSE lastOp
  /\ UNCHANGED <<storage, storageEvents, messages, popup, page, rewrite, callbacks, libraries>>

\* `await chrome.storage.local.get(...)` of init() (line 14) rejects: init()
\* ends there, its promise rejected, and none of lines 21-69 runs
InitReject ==
  /\ translator.pc = "loading"
  /\ translator' = [translator EXCEPT !.pc = "failed"]
  /\ UNCHANGED <<heap, observers, scan, lastOp, storage, storageEvents, messages, popup,
                 page, rewrite, callbacks, libraries>>

\* the chrome.storage.onChanged listener (lines 42-69)
StorageChanged ==
  /\ Quiet /\ Room
  /\ storageEvents # <<>>
  /\ LET change == Head(storageEvents)
     IN CASE change.key = "isEnabled" ->
               \E w \in {[World EXCEPT !.isEnabled = change.newValue]} :
               \E after \in {IF change.newValue THEN startTranslation(w)
                                                ELSE stopTranslation(w)} :
                  /\ Commit(after)
                  /\ lastOp' = IF after.thrown THEN "thrown"
                               ELSE IF change.newValue THEN "start" ELSE "stop"
          [] change.key = "targetLang" ->
               \E w \in {[World EXCEPT !.targetLang = change.newValue]} :
               \E after \in {IF w.isEnabled THEN translatePage(w) ELSE w} :
                  /\ Commit(after)
                  /\ lastOp' = IF after.thrown THEN "thrown"
                               ELSE IF w.isEnabled /\ SettingsDiffer(w) THEN "settings"
                               ELSE lastOp
          [] change.key = "gamePackage" ->
               \E w \in {[World EXCEPT !.gamePackage = change.newValue]} :
               \E after \in {IF w.isEnabled THEN translatePage(w) ELSE w} :
                  /\ Commit(after)
                  /\ lastOp' = IF after.thrown THEN "thrown"
                               ELSE IF w.isEnabled /\ SettingsDiffer(w) THEN "settings"
                               ELSE lastOp
  /\ storageEvents' = Tail(storageEvents)
  /\ UNCHANGED <<storage, messages, popup, page, rewrite, callbacks, libraries>>

\* the chrome.runtime.onMessage listener (lines 79-107)
MessageReceived ==
  /\ Quiet /\ Room
  /\ messages # <<>>
  /\ LET message == Head(messages)
     IN CASE message.action = "toggleTranslation" ->
               \E w \in {[World EXCEPT !.isEnabled = message.state]} :
               \E after \in {IF w.isEnabled THEN startTranslation(w)
                                            ELSE stopTranslation(w)} :
                  /\ Commit(after)
                  \* the try/catch of the listener (lines 80, 103-106)
                  /\ lastOp' = IF after.thrown THEN "caught"
                               ELSE IF w.isEnabled THEN "start" ELSE "stop"
          [] message.action = "updateSettings" ->
               \* updateSettings() runs up to its await
               /\ translator' = [translator EXCEPT !.updates = @ + 1]
               /\ UNCHANGED <<heap, observers, scan, lastOp>>
  /\ messages' = Tail(messages)
  /\ UNCHANGED <<storage, storageEvents, popup, page, rewrite, callbacks, libraries>>

\* updateSettings() after `await chrome.storage.local.get(...)` (lines 117-123)
UpdateSettingsResume ==
  /\ Quiet
  /\ translator.updates > 0
  /\ \E w \in {[World EXCEPT !.targetLang = storage.targetLang,
                               !.gamePackage = storage.gamePackage]} :
     \E after \in {IF w.isEnabled THEN translatePage(w) ELSE w} :
        /\ heap' = after.heap
        /\ observers' = after.observers
        /\ scan' = after.scan
        /\ translator' = [translator EXCEPT !.updates = @ - 1,
                                            !.targetLang = after.targetLang,
                                            !.gamePackage = after.gamePackage]
        \* the .catch of the listener (line 94)
        /\ lastOp' = IF after.thrown THEN "caught"
                     ELSE IF w.isEnabled /\ SettingsDiffer(w) THEN "settings"
                     ELSE lastOp
  /\ UNCHANGED <<storage, storageEvents, messages, popup, page, rewrite, callbacks, libraries>>

\* the MutationObserver callback of setupObserver (lines 145-151), called
\* with the records queued for observer o
ObserverCallback(o) ==
  /\ observers[o].records # <<>>
  \* the document is followed up to MaxHeap nodes
  /\ Len(heap) <= MaxHeap
  /\ \E nodes \in {flatten(observers[o].records)} :
     \E taken \in {[World EXCEPT !.observers[o].records = <<>>]} :
     \E w \in {translateNodes(taken, nodes, 1)} :
        \* scan.double: history of this call
        /\ Commit([w EXCEPT !.scan.double = w.double])
        /\ lastOp' = IF w.thrown THEN "thrown" ELSE "mutation"
  /\ callbacks' = ~callbacks
  /\ UNCHANGED <<storage, storageEvents, messages, popup, page, rewrite, libraries>>

(***************************************************************************)
(* The popup and the page                                                  *)
(***************************************************************************)
\* listeners that were registered by the constructor
listeningAtOnce == TRUE

\* what the translator's listeners receive; nothing before init() has
\* registered them
listening == translator.pc \in {"ready", "halted"}
notify(queue, event) == IF listening THEN Append(queue, event) ELSE queue
listeningToStorage == translator.pc = "ready"
notifyStorage(queue, event) == IF listeningToStorage THEN Append(queue, event) ELSE queue

\* the user starts one popup operation at a time: the callbacks of the
\* previous one have run (what they sent may still be on its way)
PopupIdle == popup.gets = <<>> /\ popup.sends = <<>> /\ popup.notifies = 0

\* toggleButton click (line 110-111): chrome.storage.local.get is issued, and
\* reads what is stored now; its callback runs in a later task
ToggleClickAnyTime ==
  /\ popup.clicks < MaxClicks
  /\ popup' = [popup EXCEPT !.clicks = @ + 1, !.gets = Append(@, storage.isEnabled)]
  /\ UNCHANGED <<heap, observers, translator, scan, lastOp, storage, storageEvents,
                 messages, page, rewrite, callbacks, libraries>>

\* a click of a user who waits for the previous operation
ToggleClick == Quiet /\ PopupIdle /\ ToggleClickAnyTime

\* the get callback (lines 112-117): set, label, chrome.tabs.query is issued
ToggleStore ==
  /\ Quiet
  /\ popup.gets # <<>>
  /\ LET newState == ~Head(popup.gets)
     IN /\ storage' = [storage EXCEPT !.isEnabled = newState]
        /\ storageEvents' = IF storage.isEnabled # newState
                            THEN notifyStorage(storageEvents,
                                        [key |-> "isEnabled", newValue |-> newState])
                            ELSE storageEvents
        /\ popup' = [popup EXCEPT !.gets = Tail(@), !.label = newState,
                                  !.sends = Append(@, newState)]
  /\ UNCHANGED <<heap, observers, translator, scan, lastOp, messages, page, rewrite, callbacks, libraries>>

\* the tabs.query callback (lines 118-125): the message is sent
ToggleSend ==
  /\ Quiet
  /\ popup.sends # <<>>
  /\ messages' = notify(messages, [action |-> "toggleTranslation",
                                   state |-> Head(popup.sends)])
  /\ popup' = [popup EXCEPT !.sends = Tail(@)]
  /\ UNCHANGED <<heap, observers, translator, scan, lastOp, storage, storageEvents,
                 page, rewrite, callbacks, libraries>>

\* targetLangSelect change (lines 131-134)
SelectTargetLang(lang) ==
  /\ Quiet /\ PopupIdle
  /\ popup.settings < MaxSettings
  /\ lang # storage.targetLang
  /\ storage' = [storage EXCEPT !.targetLang = lang]
  /\ storageEvents' = notifyStorage(storageEvents, [key |-> "targetLang", newValue |-> lang])
  /\ popup' = [popup EXCEPT !.settings = @ + 1, !.notifies = @ + 1]
  /\ UNCHANGED <<heap, observers, translator, scan, lastOp, messages, page, rewrite, callbacks, libraries>>

\* the try block with nothing thrown
uploadErrorNone(file) == ""

\* The message of the error the try block of the upload handler ends with
\* (lines 155-180), "" when it runs to its end: the FileReader fails, JSON.parse
\* throws, null has no properties, or the structure check throws.
uploadError(file) ==
  CASE file.kind = "unreadable" -> "Error reading file"
    [] file.kind = "malformed" -> "Unexpected token"
    [] file.kind = "null" -> "Cannot read properties of null"
    [] OTHER -> IF \/ "conversionTable" \notin DOMAIN FileValues[file.package]
                   \/ "definitionTable" \notin DOMAIN FileValues[file.package]
                THEN "Invalid package structure"
                ELSE ""

\* fileInput change (lines 143-192); popup.file and popup.uploads are history
FileInputChange(file) ==
  /\ Quiet /\ PopupIdle
  /\ popup.settings < MaxSettings
  /\ \E message \in {IF file.kind = "none" THEN "none" ELSE uploadError(file)} :
       IF message = ""
       THEN /\ storage' = [storage EXCEPT !.gamePackage = file.package]
            /\ storageEvents' = IF storage.gamePackage # file.package
                                THEN notifyStorage(storageEvents, [key |-> "gamePackage",
                                                            newValue |-> file.package])
                                ELSE storageEvents
            /\ popup' = [popup EXCEPT !.settings = @ + 1, !.uploads = @ + 1, !.file = file,
                                      !.status = "Game package loaded successfully!",
                                      !.notifies = @ + 1]
       ELSE /\ popup' = [popup EXCEPT !.settings = @ + 1, !.uploads = @ + 1, !.file = file,
                                      !.status = IF file.kind = "none" THEN "No file selected"
                                                 ELSE "Error: " \o message]
            /\ UNCHANGED <<storage, storageEvents>>
  /\ UNCHANGED <<heap, observers, translator, scan, lastOp, messages, page, rewrite, callbacks, libraries>>

\* notifyContentScript after `await chrome.tabs.query(...)` (lines 197-205)
NotifyContentScript ==
  /\ Quiet
  /\ popup.notifies > 0
  /\ messages' = notify(messages, [action |-> "updateSettings", state |-> FALSE])
  /\ popup' = [popup EXCEPT !.notifies = @ - 1]
  /\ UNCHANGED <<heap, observers, translator, scan, lastOp, storage, storageEvents,
                 page, rewrite, callbacks, libraries>>

\* a script of the page appends an element to document.body
PageInsert(tree) ==
  /\ Quiet
  /\ page.inserts < MaxInserts
  /\ \E made \in {allocTrees(heap, <<tree>>, body)} :
        /\ heap' = [made.heap EXCEPT ![body].childNodes = @ \o made.ids]
        /\ observers' = queueRecord(observers, heap, body, made.ids)
        /\ page' = [text |-> page.text \o treeText(tree), inserts |-> page.inserts + 1,
                    element |-> made.ids[1]]
  /\ UNCHANGED <<translator, scan, lastOp, storage, storageEvents, messages, popup, rewrite, callbacks, libraries>>

\* a script of the page appends an element without children to
\* document.body and then, in the same task, the children to the element:
\* one mutation record for each appendChild
RECURSIVE queueRecords(_, _, _, _)
queueRecords(obs, h, target, nodes) ==
  IF nodes = <<>> THEN obs
  ELSE queueRecords(queueRecord(obs, h, target, <<Head(nodes)>>), h, target, Tail(nodes))

PageInsertBurst(tree) ==
  /\ Quiet
  /\ page.inserts < MaxInserts
  /\ tree.childNodes # <<>>
  /\ \E made \in {allocTrees(heap, <<tree>>, body)} :
     \E after \in {[made.heap EXCEPT ![body].childNodes = @ \o made.ids]} :
        /\ heap' = after
        /\ observers' = queueRecords(queueRecord(observers, heap, body, made.ids),
                                     after, made.ids[1], after[made.ids[1]].childNodes)
        /\ page' = [text |-> page.text \o treeText(tree), inserts |-> page.inserts + 1,
                    element |-> made.ids[1]]
  /\ UNCHANGED <<translator, scan, lastOp, storage, storageEvents, messages, popup, rewrite, callbacks, libraries>>

Next ==
  \/ InitResolve
  \/ InitReject
  \/ StorageChanged
  \/ MessageReceived
  \/ UpdateSettingsResume
  \/ \E o \in 1..Len(observers) : ObserverCallback(o)
  \/ ToggleClick
  \/ ToggleStore
  \/ ToggleSend
  \/ \E lang \in TargetLangs : SelectTargetLang(lang)
  \/ \E file \in UploadFiles : FileInputChange(file)
  \/ NotifyContentScript
  \/ \E tree \in InsertTrees : PageInsert(tree)
  \/ \E tree \in InsertTrees : PageInsertBurst(tree)

Spec == Init /\ [][Next]_vars

(***************************************************************************)
(* The popup on its own, in a tab where the content script is not loaded:  *)
(* every kind of file is offered to the upload handler.                    *)
(***************************************************************************)
InitUpload ==
  /\ heap = <<bodyNode>>
  /\ page = [text |-> <<>>, inserts |-> 0, element |-> 0]
  /\ observers = <<>>
  /\ translator = [pc |-> "loading", isEnabled |-> FALSE, targetLang |-> "en",
                   gamePackage |-> NoPackage, observer |-> 0, updates |-> 0]
  /\ scan = NoScan
  /\ lastOp = "none"
  \* what earlier popup sessions left in storage
  /\ \E enabled \in BOOLEAN, lang \in TargetLangs, pkg \in {NoPackage, 1, 2} :
       storage = [isEnabled |-> enabled, targetLang |-> lang, gamePackage |-> pkg]
  /\ storageEvents = <<>>
  /\ messages = <<>>
  /\ popup = [gets |-> <<>>, sends |-> <<>>, notifies |-> 0, label |-> storage.isEnabled,
              clicks |-> 0, settings |-> 0, uploads |-> 0, file |-> NoFile, status |-> ""]
  /\ rewrite = "off"
  /\ service = NoService
  /\ validation = NoValidation
  /\ background = NoBackground
  /\ callbacks = FALSE

NextUpload ==
  \/ \E file \in Files : FileInputChange(file)
  \/ NotifyContentScript

SpecUpload == InitUpload /\ [][NextUpload]_vars

(***************************************************************************)
(* The popup on its own, with a user who clicks the toggle button at any   *)
(* time: a click may come before the callbacks of the previous one ran.    *)
(***************************************************************************)
NextToggle ==
  \/ ToggleClickAnyTime
  \/ ToggleStore
  \/ ToggleSend

SpecToggle == InitUpload /\ [][NextToggle]_vars

(***************************************************************************)
(* The observer on its own: translation was started on an empty page, for  *)
(* every package and target language, and a script of the page appends one *)
(* paragraph.  The callback then runs for the page's record and for the    *)
(* records of what the translator itself inserts.                          *)
(***************************************************************************)
\* the texts of the text node, and of the paragraph the page appends
RewriteTexts ==
  { <<"h","i">>,
    <<"<","q",">","h","i">>,
    <<"e","n","j","i","n">>,
    <<"h","i"," ","t","s","u","e">>,
    <<"F","i","r","e"," ","S","t","a","f","f">>,
    <<"h","i","j","o"," ","d","e","s","u">>,
    <<"c","l","a","s","s"," ","s","p","a","n">>,
    <<"T","h","e"," ","e","n","j","i","n"," ","r","o","a","r","s">>,
    <<"a"," ","h","i"," ","b"," ","h","i"," ","t","s","u","e">>,
    <<"a","<","b"," ","e","n","j","i","n">>,
    <<"x"," ","&"," ","y">>,
    <<"e","n","j","i","n"," ","&","a","m","p",";"," ","h","i">>,
    <<"n","o"," ","m","a","t","c","h">>,
    <<" ">>,
    <<"h","u","o"," ","h","i">>,
    <<"e","r","e","m","e","n","t","o">>,
    <<"E","n","g","i","n","e"," ","F","i","r","e">>,
    <<"1"," ","<"," ","2"," ","e","n","j","i","n">>,
    <<"s","a","y"," ","\"","h","i","\"">>,
    <<"s","k","i","l","l"," ","c","h","e","c","k">>,
    <<"S","k","i","l","l"," ","c","h","e","c","k">>,
    <<"s","w","o","r","d">>,
    <<"S","h","i","e","l","d">>,
    <<"B","o","w"," ","S","w","o","r","d"," ","S","h","i","e","l","d">> }

InitMutation ==
  /\ page = [text |-> <<>>, inserts |-> 0, element |-> 0]
  /\ \E lang \in Languages, pkg \in 1..Len(Packages) :
       /\ storage = [isEnabled |-> TRUE, targetLang |-> lang, gamePackage |-> pkg]
       /\ \E w \in {startTranslation(createTooltip(
                      [heap |-> loadPage(<<>>), observers |-> <<>>, scan |-> NoScan,
                       isEnabled |-> TRUE, targetLang |-> lang, gamePackage |-> pkg,
                       observer |-> 0, thrown |-> FALSE, passed |-> {},
                       double |-> FALSE]))} :
            /\ heap = w.heap
            /\ observers = w.observers
            /\ scan = w.scan
            /\ translator = [pc |-> "ready", isEnabled |-> TRUE, targetLang |-> lang,
                             gamePackage |-> pkg, observer |-> w.observer, updates |-> 0]
  /\ lastOp = "start"
  /\ storageEvents = <<>>
  /\ messages = <<>>
  /\ popup = [gets |-> <<>>, sends |-> <<>>, notifies |-> 0, label |-> TRUE,
              clicks |-> 0, settings |-> 0, uploads |-> 0, file |-> NoFile, status |-> ""]
  /\ rewrite = "off"
  /\ service = NoService
  /\ validation = NoValidation
  /\ background = NoBackground
  /\ callbacks = FALSE

NextMutation ==
  \/ \E text \in RewriteTexts : PageInsert(p(text))
  \/ \E o \in 1..Len(observers) : ObserverCallback(o)

SpecMutation == InitMutation /\ [][NextMutation]_vars

\* The steps of ObserverCallback as callbacks shows them: they are taken
\* when records are queued.
CallbackStep ==
  /\ ~Quiet
  /\ Len(heap) <= MaxHeap
  /\ callbacks' = ~callbacks

\* queued mutation records are delivered: the callback runs in a microtask
SpecMutationFair == SpecMutation /\ WF_callbacks(CallbackStep)

(***************************************************************************)
(* The rewrite of one text node on its own: translateTextNode applied to   *)
(* the only child of body, for every package, target language and text.   *)
(***************************************************************************)
InitRewrite ==
  /\ \E text \in RewriteTexts :
       /\ heap = loadPage(<<textTree(text)>>)
       /\ page = [text |-> text, inserts |-> 0, element |-> 0]
  /\ observers = <<>>
  /\ \E lang \in Languages, pkg \in 1..Len(Packages) :
       /\ translator = [pc |-> "ready", isEnabled |-> TRUE, targetLang |-> lang,
                        gamePackage |-> pkg, observer |-> 0, updates |-> 0]
       /\ storage = [isEnabled |-> TRUE, targetLang |-> lang, gamePackage |-> pkg]
  /\ scan = NoScan
  /\ lastOp = "none"
  /\ storageEvents = <<>>
  /\ messages = <<>>
  /\ popup = [gets |-> <<>>, sends |-> <<>>, notifies |-> 0, label |-> TRUE,
              clicks |-> 0, settings |-> 0, uploads |-> 0, file |-> NoFile, status |-> ""]
  /\ rewrite = "input"
  /\ service = NoService
  /\ validation = NoValidation
  /\ background = NoBackground
  /\ callbacks = FALSE

\* this.translateTextNode(node) for the text node under body
RewriteNode ==
  /\ rewrite = "input"
  /\ \E w \in {World} : \E after \in {translateTextNode(w, 2)} :
       /\ Commit(after)
       /\ rewrite' = IF after.thrown THEN "thrown" ELSE "done"
  /\ UNCHANGED <<lastOp, storage, storageEvents, messages, popup, page, callbacks, libraries>>

NextRewrite == RewriteNode

SpecRewrite == InitRewrite /\ [][NextRewrite]_vars

(***************************************************************************)
(* The TranslationService on its own: initialize with a package and a      *)
(* target language, then getTranslation for a term and a source language.  *)
(***************************************************************************)
\* the terms asked for: every entry of every conversionTable, and a term in
\* another letter case
ServiceTerms ==
  UNION { UNION { {Packages[i].conversionTable[lang][j] :
                     j \in 1..Len(Packages[i].conversionTable[lang])} :
                  lang \in DOMAIN Packages[i].conversionTable } :
          i \in 1..Len(Packages) }
    \cup { <<"s","k","i","l","l">> }

InitService ==
  /\ heap = <<bodyNode>>
  /\ page = [text |-> <<>>, inserts |-> 0, element |-> 0]
  /\ observers = <<>>
  /\ translator = [pc |-> "loading", isEnabled |-> FALSE, targetLang |-> "en",
                   gamePackage |-> NoPackage, observer |-> 0, updates |-> 0]
  /\ storage = [isEnabled |-> FALSE, targetLang |-> "en", gamePackage |-> NoPackage]
  /\ scan = NoScan
  /\ lastOp = "none"
  /\ storageEvents = <<>>
  /\ messages = <<>>
  /\ popup = [gets |-> <<>>, sends |-> <<>>, notifies |-> 0, label |-> FALSE,
              clicks |-> 0, settings |-> 0, uploads |-> 0, file |-> NoFile, status |-> ""]
  /\ rewrite = "off"
  /\ service = NoService
  /\ validation = NoValidation
  /\ background = NoBackground
  /\ callbacks = FALSE

\* the texts given to translateText
ServiceTexts ==
  { <<"a">>, <<"a","a">>, <<"B","o","w">>, <<"S","k","i","l","l"," ","u","p">>,
    <<"s","u","k","i","r","u">>, <<"h","i"," ","h","i","j","o">> }

\* The methods of the service are synchronous: none starts while
\* translateText is in its loop.
ServiceIdle == service.run.pc # "loop"

\* a run whose text has outgrown MaxText is followed no further
unfollowed(run) == [run EXCEPT !.pc = "long"]

\* initialize(package, targetLang)
ServiceInitialize(pkg, targetLang) ==
  /\ ServiceIdle
  /\ service' = [NoService EXCEPT !.gamePackage = pkg, !.targetLang = targetLang]
  /\ UNCHANGED <<heap, observers, translator, scan, lastOp, storage, storageEvents,
                 messages, popup, page, rewrite, callbacks, validation, background>>

\* getTranslation(term, sourceLang)
ServiceGetTranslation(term, sourceLang) ==
  /\ ServiceIdle
  /\ service' = [service EXCEPT !.called = TRUE, !.term = term, !.sourceLang = sourceLang,
                                !.result = getTranslation(service, term, sourceLang),
                                !.run = NoRun, !.best = NoBest]
  /\ UNCHANGED <<heap, observers, translator, scan, lastOp, storage, storageEvents,
                 messages, popup, page, rewrite, callbacks, validation, background>>

\* the texts given to findBestMatch: the terms, the texts, '' and a text
\* with two terms, the longer one second in the table and in the text
BestMatchTexts ==
  ServiceTerms \cup ServiceTexts
    \cup { <<>>, <<"B","o","w"," ","S","w","o","r","d"," ","S","h","i","e","l","d">> }

\* findBestMatch(text, sourceLang)
ServiceFindBestMatch(text, sourceLang) ==
  /\ ServiceIdle
  /\ service' = [NoService EXCEPT !.gamePackage = service.gamePackage,
                                  !.targetLang = service.targetLang,
                                  !.best = [called |-> TRUE, text |-> text,
                                            sourceLang |-> sourceLang,
                                            match |-> findBestMatch(service, text, sourceLang)]]
  /\ UNCHANGED <<heap, observers, translator, scan, lastOp, storage, storageEvents,
                 messages, popup, page, rewrite, callbacks, validation, background>>

\* translateText(text, sourceLang) is called (lines 173-175)
ServiceTranslateText(text, sourceLang) ==
  /\ ServiceIdle
  /\ service.gamePackage # NoPackage
  /\ service' = [service EXCEPT !.called = FALSE, !.term = <<>>, !.sourceLang = "",
                                !.result = NoTranslation, !.best = NoBest,
                                !.run = [NoRun EXCEPT !.pc = "loop", !.caller = "api",
                                                      !.input = text, !.text = text,
                                                      !.sourceLang = sourceLang]]
  /\ UNCHANGED <<heap, observers, translator, scan, lastOp, storage, storageEvents,
                 messages, popup, page, rewrite, callbacks, validation, background>>

\* DOMService.translateTextNode(textNode) for a text node with this
\* nodeValue calls translateText(originalText, this.translationService.targetLang)
\* (lines 324-328)
DomTranslateTextNode(text) ==
  /\ ServiceIdle
  /\ service.gamePackage # NoPackage
  /\ service' = [service EXCEPT !.called = FALSE, !.term = <<>>, !.sourceLang = "",
                                !.result = NoTranslation, !.best = NoBest,
                                !.run = [NoRun EXCEPT !.pc = "loop", !.caller = "dom",
                                                      !.input = text, !.text = text,
                                                      !.sourceLang = service.targetLang]]
  /\ UNCHANGED <<heap, observers, translator, scan, lastOp, storage, storageEvents,
                 messages, popup, page, rewrite, callbacks, validation, background>>

\* one turn of the loop of translateText
ServiceTranslateTurn ==
  /\ service.run.pc = "loop"
  /\ service' = [service EXCEPT !.run = IF Len(service.run.text) <= MaxText
                                        THEN translateTextTurn(service, service.run)
                                        ELSE unfollowed(service.run)]
  /\ UNCHANGED <<heap, observers, translator, scan, lastOp, storage, storageEvents,
                 messages, popup, page, rewrite, callbacks, validation, background>>

NextService ==
  \/ \E pkg \in 1..Len(Packages), targetLang \in Languages : ServiceInitialize(pkg, targetLang)
  \/ \E term \in ServiceTerms, sourceLang \in Languages :
       ServiceGetTranslation(term, sourceLang)
  \/ \E text \in BestMatchTexts, sourceLang \in Languages :
       ServiceFindBestMatch(text, sourceLang)
  \/ \E text \in ServiceTexts, sourceLang \in Languages : ServiceTranslateText(text, sourceLang)
  \/ \E text \in ServiceTexts : DomTranslateTextNode(text)
  \/ ServiceTranslateTurn

SpecService == InitService /\ [][NextService]_vars

\* the loop of translateText, once entered, goes on running
SpecServiceFair == SpecService /\ WF_vars(ServiceTranslateTurn)

(***************************************************************************)
(* The Validator on its own: validateGamePackage for a package put         *)
(* together from a metadata, a conversionTable, a definitionTable and a    *)
(* settings part, each of which may be absent, and for the packages above. *)
(***************************************************************************)
Absent == <<>>
word1 == <<"a">>
ValidatorMetadata ==
  { Absent,
    [metadata |-> [name |-> <<"G">>, version |-> <<"1">>, languages |-> <<"en", "ja">>]],
    [metadata |-> [name |-> <<>>, version |-> <<"1">>, languages |-> <<"en", "ja">>]],
    [metadata |-> [name |-> <<"G">>, version |-> <<"1">>]] }
ValidatorConversions ==
  { Absent,
    [conversionTable |-> [en |-> <<word1>>, ja |-> <<word1>>]],
    [conversionTable |-> [en |-> <<word1, word1>>, ja |-> <<word1>>]],
    [conversionTable |-> [en |-> <<word1>>, ja |-> <<word1>>, zh |-> <<>>]],
    [conversionTable |-> [en |-> <<word1, word1>>]] }
ValidatorDefinitions ==
  { Absent,
    [definitionTable |-> [en |-> <<word1>>]],
    [definitionTable |-> [en |-> <<word1, word1>>, ja |-> <<>>]],
    [definitionTable |-> [zh |-> <<word1>>]],
    [definitionTable |-> [constructor |-> <<word1>>]] }
ValidatorSettings ==
  { Absent,
    [settings |-> [caseSensitive |-> jsBoolean(TRUE), enablePartialMatch |-> jsBoolean(FALSE),
                   tooltipDelay |-> jsNumber(0)]],
    [settings |-> [caseSensitive |-> jsString(<<"n","o">>), enablePartialMatch |-> jsBoolean(FALSE),
                   tooltipDelay |-> jsNumber(300)]],
    [settings |-> [caseSensitive |-> jsBoolean(TRUE), enablePartialMatch |-> jsBoolean(FALSE)]] }

ValidatorPackages ==
  { m @@ c @@ d @@ t : m \in ValidatorMetadata, c \in ValidatorConversions,
                       d \in ValidatorDefinitions, t \in ValidatorSettings }
    \cup { Packages[i] : i \in 1..Len(Packages) }

InitValidator ==
  /\ heap = <<bodyNode>>
  /\ page = [text |-> <<>>, inserts |-> 0, element |-> 0]
  /\ observers = <<>>
  /\ translator = [pc |-> "loading", isEnabled |-> FALSE, targetLang |-> "en",
                   gamePackage |-> NoPackage, observer |-> 0, updates |-> 0]
  /\ storage = [isEnabled |-> FALSE, targetLang |-> "en", gamePackage |-> NoPackage]
  /\ scan = NoScan
  /\ lastOp = "none"
  /\ storageEvents = <<>>
  /\ messages = <<>>
  /\ popup = [gets |-> <<>>, sends |-> <<>>, notifies |-> 0, label |-> FALSE,
              clicks |-> 0, settings |-> 0, uploads |-> 0, file |-> NoFile, status |-> ""]
  /\ rewrite = "off"
  /\ service = NoService
  /\ validation = NoValidation
  /\ background = NoBackground
  /\ callbacks = FALSE

\* Validator.validateGamePackage(package)
Validate(pkg) ==
  /\ validation' = [called |-> TRUE, package |-> pkg, result |-> validateGamePackage(pkg)]
  /\ UNCHANGED <<heap, observers, translator, scan, lastOp, storage, storageEvents,
                 messages, popup, page, rewrite, callbacks, service, background>>

NextValidator == \E pkg \in ValidatorPackages : Validate(pkg)

SpecValidator == InitValidator /\ [][NextValidator]_vars

(***************************************************************************)
(* The background script on its own: readyTabs and its two listeners, and  *)
(* sendMessageToContentScript with its helpers, one call at a time.  The   *)
(* browser settles each chrome.* promise in a later task, so tabs may load *)
(* a content script, report ready or close while a call is waiting.        *)
(***************************************************************************)
\* how chrome.tabs.sendMessage(tabId, {action: 'ping'}) may settle: with
\* {success: true}, with {success: false}, with undefined (no listener
\* answered), or rejected (no receiving end)
PingOutcomes(tab) ==
  IF tab \in background.open /\ tab \in background.scripts
  THEN {"success", "failure", "undefined"}
  ELSE {"rejected"}

\* what isContentScriptReady returns after the ping (lines 34-44): true for
\* {success: true}; response.success of undefined throws, which is caught
pingReady(outcome) == outcome = "success"

\* an injection that is taken to have worked whatever executeScript did
injectContentScriptDone(outcome) == TRUE

\* what injectContentScript returns (lines 49-58)
injectContentScript(outcome) == outcome = "resolved"

BackgroundIdle == background.call.pc \in {"idle", "returned", "rejected"}

\* sendMessageToContentScript(tabId, message) is called: readyTabs.has(tabId)
\* (line 30), and then the message (line 75) or the ping (line 35) is sent
SendMessageToContentScript(tabId) ==
  /\ BackgroundIdle
  /\ background' =
       [background EXCEPT
          !.call = IF tabId \in background.readyTabs
                   THEN [NoCall EXCEPT !.pc = "sending", !.tabId = tabId, !.sent = 1]
                   ELSE [NoCall EXCEPT !.pc = "ping", !.tabId = tabId],
          !.event = [kind |-> "call", tab |-> tabId]]
  /\ UNCHANGED <<heap, observers, translator, scan, lastOp, storage, storageEvents,
                 messages, popup, page, rewrite, callbacks, service, validation>>

\* the ping settles (lines 35-44, then 65-67 or 75)
PingSettles(outcome) ==
  /\ background.call.pc = "ping"
  /\ outcome \in PingOutcomes(background.call.tabId)
  /\ background' =
       [background EXCEPT
          !.readyTabs = IF pingReady(outcome) THEN @ \cup {background.call.tabId} ELSE @,
          !.call = IF pingReady(outcome)
                   THEN [@ EXCEPT !.pc = "sending", !.ping = outcome, !.sent = @ + 1]
                   ELSE [@ EXCEPT !.pc = "inject", !.ping = outcome],
          !.event = [kind |-> "ping", tab |-> background.call.tabId]]
  /\ UNCHANGED <<heap, observers, translator, scan, lastOp, storage, storageEvents,
                 messages, popup, page, rewrite, callbacks, service, validation>>

\* chrome.scripting.executeScript settles (lines 50-58, then 67-71)
InjectSettles(outcome) ==
  /\ background.call.pc = "inject"
  /\ outcome = "resolved" => background.call.tabId \in background.open
  /\ background' =
       [background EXCEPT
          !.scripts = IF outcome = "resolved" THEN @ \cup {background.call.tabId} ELSE @,
          !.call = IF injectContentScript(outcome)
                   THEN [@ EXCEPT !.pc = "wait", !.inject = outcome]
                   ELSE [@ EXCEPT !.pc = "rejected", !.inject = outcome],
          !.event = [kind |-> "inject", tab |-> background.call.tabId]]
  /\ UNCHANGED <<heap, observers, translator, scan, lastOp, storage, storageEvents,
                 messages, popup, page, rewrite, callbacks, service, validation>>

\* the 100 ms timer fires (line 71), and the message is sent (line 75)
TimerFires ==
  /\ background.call.pc = "wait"
  /\ background' = [background EXCEPT !.call.pc = "sending", !.call.sent = @ + 1,
                                      !.event = [kind |-> "timer",
                                                 tab |-> background.call.tabId]]
  /\ UNCHANGED <<heap, observers, translator, scan, lastOp, storage, storageEvents,
                 messages, popup, page, rewrite, callbacks, service, validation>>

\* chrome.tabs.sendMessage(tabId, message) settles (lines 75-80)
MessageSettles(resolved) ==
  /\ background.call.pc = "sending"
  /\ resolved => /\ background.call.tabId \in background.open
                 /\ background.call.tabId \in background.scripts
  /\ background' = [background EXCEPT !.call.pc = IF resolved THEN "returned" ELSE "rejected",
                                      !.event = [kind |-> "settled",
                                                 tab |-> background.call.tabId]]
  /\ UNCHANGED <<heap, observers, translator, scan, lastOp, storage, storageEvents,
                 messages, popup, page, rewrite, callbacks, service, validation>>

\* the runtime.onMessage listener (lines 15-21); sender is the tab of a
\* content script, or NoTab for an extension page
OnMessage(action, sender) ==
  /\ sender # NoTab => sender \in background.open /\ sender \in background.scripts
  /\ background' =
       [background EXCEPT
          !.readyTabs = IF action = "contentScriptReady" /\ sender # NoTab
                        THEN @ \cup {sender} ELSE @,
          !.event = [kind |-> action, tab |-> sender]]
  /\ UNCHANGED <<heap, observers, translator, scan, lastOp, storage, storageEvents,
                 messages, popup, page, rewrite, callbacks, service, validation>>

\* a tab loads the content script the manifest declares
ScriptLoads(tab) ==
  /\ tab \in background.open
  /\ tab \notin background.scripts
  /\ background' = [background EXCEPT !.scripts = @ \cup {tab},
                                      !.event = [kind |-> "loaded", tab |-> tab]]
  /\ UNCHANGED <<heap, observers, translator, scan, lastOp, storage, storageEvents,
                 messages, popup, page, rewrite, callbacks, service, validation>>

\* the tab is closed: the tabs.onRemoved listener (lines 24-26)
TabRemoved(tab) ==
  /\ tab \in background.open
  /\ background' = [background EXCEPT !.open = @ \ {tab}, !.scripts = @ \ {tab},
                                      !.readyTabs = @ \ {tab},
                                      !.event = [kind |-> "removed", tab |-> tab]]
  /\ UNCHANGED <<heap, observers, translator, scan, lastOp, storage, storageEvents,
                 messages, popup, page, rewrite, callbacks, service, validation>>

NextBackground ==
  \/ \E tabId \in Tabs : SendMessageToContentScript(tabId)
  \/ \E outcome \in {"success", "failure", "undefined", "rejected"} : PingSettles(outcome)
  \/ \E outcome \in {"resolved", "rejected"} : InjectSettles(outcome)
  \/ TimerFires
  \/ \E resolved \in BOOLEAN : MessageSettles(resolved)
  \/ \E action \in {"contentScriptReady", "translate"}, sender \in Tabs \cup {NoTab} :
       OnMessage(action, sender)
  \/ \E tab \in Tabs : ScriptLoads(tab)
  \/ \E tab \in Tabs : TabRemoved(tab)

SpecBackground == InitValidator /\ [][NextBackground]_vars

(***************************************************************************)
(* What the specification asks of the rewrite of one text (spec 4.2, 4.3): *)
(* a sequence of segments, each either a verbatim piece of the input       *)
(* (raw) or an occurrence carrying its translation and definition.  Terms  *)
(* are taken language by language, longest first, and a term is looked for *)
(* only in what is still verbatim input.                                   *)
(***************************************************************************)
rawSegment(text) == [raw |-> TRUE, text |-> text, definition |-> <<>>]

\* one verbatim text cut at the occurrences of word
RECURSIVE ExpectedSplit(_, _, _, _)
ExpectedSplit(text, word, occurrence, i) ==
  LET hits == {k \in i..(Len(text) - Len(word) + 1) : startsWithAt(text, word, k)}
      piece(to) == IF to >= i THEN <<rawSegment(SubSeq(text, i, to))>> ELSE <<>>
  IN IF hits = {} THEN piece(Len(text))
     ELSE piece(Min(hits) - 1) \o <<occurrence>>
          \o ExpectedSplit(text, word, occurrence, Min(hits) + Len(word))

RECURSIVE ExpectedSplitAll(_, _, _)
ExpectedSplitAll(segments, word, occurrence) ==
  IF segments = <<>> THEN <<>>
  ELSE (IF Head(segments).raw
        THEN ExpectedSplit(Head(segments).text, word, occurrence, 1)
        ELSE <<Head(segments)>>) \o ExpectedSplitAll(Tail(segments), word, occurrence)

RECURSIVE ExpectedWords(_, _, _, _, _, _)
ExpectedWords(pkg, targetLang, sourceLang, order, k, segments) ==
  IF k > Len(order) THEN segments
  ELSE
  LET translation == entryAt(tableGet(pkg.conversionTable, targetLang), order[k])
      occurrence == [raw |-> FALSE, text |-> translation,
                     definition |-> definitionFor(pkg, targetLang, sourceLang, order[k])]
  IN ExpectedWords(pkg, targetLang, sourceLang, order, k + 1,
       IF translation = <<>> THEN segments
       ELSE ExpectedSplitAll(segments, pkg.conversionTable[sourceLang][order[k]], occurrence))

RECURSIVE ExpectedLanguages(_, _, _, _, _)
ExpectedLanguages(pkg, targetLang, langs, j, segments) ==
  IF j > Len(langs) THEN segments
  ELSE ExpectedLanguages(pkg, targetLang, langs, j + 1,
         ExpectedWords(pkg, targetLang, langs[j],
                       wordIndices(pkg.conversionTable[langs[j]]), 1, segments))

ExpectedSegments(pkg, targetLang, text) ==
  ExpectedLanguages(pkg, targetLang, sourceLanguages(pkg, targetLang), 1,
                    IF text = <<>> THEN <<>> ELSE <<rawSegment(text)>>)

ExpectedOccurrences(segments) == SelectSeq(segments, LAMBDA seg : ~seg.raw)
ExpectedVerbatim(segments) == SelectSeq(segments, LAMBDA seg : seg.raw)
ExpectedText(segments) == flatten([k \in 1..Len(segments) |-> segments[k].text])
ExpectedHTML(segments) ==
  flatten([k \in 1..Len(segments) |->
             IF segments[k].raw THEN segments[k].text
             ELSE keywordSpan(segments[k].text, segments[k].definition)])

\* the segments expected for the text node of SpecRewrite
Expected == ExpectedSegments(Packages[translator.gamePackage], translator.targetLang, page.text)

\* the elements below a node, in document order
RECURSIVE elementsOf(_, _)
RECURSIVE elementsUnder(_, _)
elementsOf(h, ids) ==
  IF ids = <<>> THEN <<>>
  ELSE (IF h[Head(ids)].type = "element"
        THEN <<Head(ids)>> \o elementsUnder(h, Head(ids)) ELSE <<>>)
       \o elementsOf(h, Tail(ids))
elementsUnder(h, id) == elementsOf(h, h[id].childNodes)

\* the keyword spans of the document, in document order
keywordSpans == SelectSeq(elementsUnder(heap, body),
                          LAMBDA id : classListContains(heap[id], kwClass))

\* the node of SpecRewrite was replaced
Replaced == rewrite = "done" /\ heap[2].parentNode = 0

(***************************************************************************)
(* C1.  translateTextNode replaces a text node that contains source terms  *)
(* by content whose text is the input with each occurrence replaced by the *)
(* target-language entry and every other character copied in order, each  *)
(* occurrence being one keyword span that carries the definition.          *)
(***************************************************************************)
C1_SubstitutionText ==
  (rewrite = "done" /\ ExpectedOccurrences(Expected) # <<>>) =>
     /\ textContent(heap, body) = ExpectedText(Expected)
     /\ [k \in 1..Len(keywordSpans) |->
           [text |-> textContent(heap, keywordSpans[k]),
            definition |-> getAttribute(heap[keywordSpans[k]], definitionAttr)]]
        = [k \in 1..Len(ExpectedOccurrences(Expected)) |->
           [text |-> ExpectedOccurrences(Expected)[k].text,
            definition |-> ExpectedOccurrences(Expected)[k].definition]]

(***************************************************************************)
(* C2.  Longest match first: when a source term A is a proper part of a    *)
(* source term B (same or different source languages, both translated), a  *)
(* text that is an occurrence of B becomes exactly one keyword span, which *)
(* carries B's translation.                                                *)
(***************************************************************************)
\* the translated source terms, as [lang, index, word, translation]
SourceTerms ==
  LET pkg == Packages[translator.gamePackage]
      langs == {lang \in DOMAIN pkg.conversionTable : lang # translator.targetLang}
  IN { [lang |-> lang, index |-> i,
        word |-> pkg.conversionTable[lang][i],
        translation |-> entryAt(tableGet(pkg.conversionTable, translator.targetLang), i)] :
       <<lang, i>> \in {<<l, j>> \in langs \X (1..3) :
                          /\ j <= Len(pkg.conversionTable[l])
                          /\ pkg.conversionTable[l][j] # <<>>
                          /\ entryAt(tableGet(pkg.conversionTable, translator.targetLang), j) # <<>>} }

properPart(a, b) == Len(a) < Len(b) /\ includes(b, a)

C2_LongestMatchFirst ==
  \A B \in SourceTerms :
    (/\ rewrite = "done"
     /\ page.text = B.word
     /\ \E A \in SourceTerms : properPart(A.word, B.word)) =>
        /\ Len(heap[body].childNodes) = 1
        /\ keywordSpans = heap[body].childNodes
        /\ textContent(heap, body) = B.translation

(***************************************************************************)
(* C3.  Markup safety: when the node is replaced, the verbatim segments    *)
(* are text nodes holding exactly the original characters, and the only    *)
(* elements created are the keyword spans of the occurrences.              *)
(***************************************************************************)
C3_MarkupSafety ==
  Replaced =>
    LET kids == heap[body].childNodes
        texts == SelectSeq(kids, LAMBDA id : heap[id].type = "text")
    IN /\ \A k \in 1..Len(kids) : heap[kids[k]].type \in {"text", "element"}
       /\ [k \in 1..Len(texts) |-> heap[texts[k]].data]
          = [k \in 1..Len(ExpectedVerbatim(Expected)) |-> ExpectedVerbatim(Expected)[k].text]
       /\ elementsUnder(heap, body) = SelectSeq(kids, LAMBDA id : heap[id].type = "element")
       /\ Len(elementsUnder(heap, body)) = Len(ExpectedOccurrences(Expected))
       /\ \A id \in {kids[k] : k \in 1..Len(kids)} :
            heap[id].type = "element" =>
              /\ heap[id].tagName = spanTag
              /\ getAttribute(heap[id], classAttr) = kwClass
              /\ \A a \in 1..Len(heap[id].attributes) :
                   heap[id].attributes[a].name \in {classAttr, definitionAttr}
              /\ Len(heap[id].childNodes) = 1
              /\ heap[heap[id].childNodes[1]].type = "text"

(***************************************************************************)
(* C4.  Non-overlap inside one rewrite: a term processed later is matched  *)
(* only against characters of the original text that were not replaced     *)
(* yet, never inside an inserted translation, definition or span markup;   *)
(* so the rewritten string is the verbatim pieces and the keyword spans of *)
(* the occurrences, in order.                                              *)
(***************************************************************************)
C4_NoMatchInsideReplacement ==
  rewrite = "done" =>
    rewriteText(Packages[translator.gamePackage], translator.targetLang, page.text).text
      = ExpectedHTML(Expected)

(***************************************************************************)
(* Claims about scanning (Spec)                                            *)
(***************************************************************************)
\* the text nodes of the document, in document order
documentTexts == textNodesUnder(heap, body)

\* translateTextNode would replace this text node under the current settings
Rewritable(h, id) ==
  /\ translator.gamePackage # NoPackage
  /\ ~isBlank(h[id].data)
  /\ ~classListContains(h[h[id].parentNode], tooltipClass)
  /\ ~classListContains(h[h[id].parentNode], kwClass)
  /\ rewriteText(Packages[translator.gamePackage], translator.targetLang, h[id].data).modified

(***************************************************************************)
(* C5.  No-op idempotence: a full scan (translatePage) that runs on the    *)
(* document exactly as the previous full scan left it, with the same       *)
(* targetLang and gamePackage, does not modify the document.               *)
(***************************************************************************)
C5_RescanIsNoOp == scan.repeated => ~scan.modified

\* a second scan ran on an unchanged document in which the first scan had
\* produced a keyword span
C5_Witness == scan.repeated /\ scan.count >= 2 /\ keywordSpans # <<>>

(***************************************************************************)
(* C6.  Revert round trip: once stopTranslation has run, the document      *)
(* shows the text the page wrote (its text before translation).            *)
(***************************************************************************)
C6_RevertRestoresText == lastOp = "stop" => textContent(heap, body) = page.text

(***************************************************************************)
(* C7.  Re-scan on settings change: while enabled and after a first full   *)
(* scan, a change of targetLang or gamePackage re-runs the scan over every *)
(* text node, so no text node is left that matches under the new settings. *)
(***************************************************************************)
C7_RescanOnSettingsChange ==
  (lastOp = "settings" /\ scan.count >= 2) =>
     \A k \in 1..Len(documentTexts) : ~Rewritable(heap, documentTexts[k])

(***************************************************************************)
(* C8.  Disable stops mutation scans: the mutation callback (and with it   *)
(* translateNodes) runs only while translation is enabled.                 *)
(***************************************************************************)
C8_NoScanWhileDisabled == lastOp = "mutation" => translator.isEnabled

(***************************************************************************)
(* C9.  Leaving Disabled requires a loaded package: the translator holds   *)
(* an observer only while isEnabled is true and a gamePackage is loaded.   *)
(***************************************************************************)
C9_ObserverNeedsPackage ==
  translator.observer # 0 => translator.isEnabled /\ translator.gamePackage # NoPackage

(***************************************************************************)
(* C10.  Incremental scan: when the mutation callback receives an element  *)
(* the page inserted after the first full scan, that element is scanned    *)
(* (it gets its processed marker), the terms in its text are rewritten,    *)
(* and no other element of the document changes its processed marker.      *)
(***************************************************************************)
\* the nodes of the subtree of a node
RECURSIVE subtreeOf(_, _)
RECURSIVE subtree(_, _)
subtreeOf(h, ids) ==
  IF ids = <<>> THEN {} ELSE subtree(h, Head(ids)) \cup subtreeOf(h, Tail(ids))
subtree(h, id) == {id} \cup subtreeOf(h, h[id].childNodes)

processed(h, id) == classListContains(h[id], processedClass)

\* observer o is called with the record of the inserted element, which is
\* unprocessed and holds a term that is not translated yet
IncrementalScan(o) ==
  /\ ObserverCallback(o)
  /\ page.element # 0
  /\ \E k \in 1..Len(observers[o].records) : observers[o].records[k] = <<page.element>>
  /\ translator.isEnabled /\ scan.count >= 1
  /\ ~processed(heap, page.element)
  /\ \E id \in subtree(heap, page.element) :
       heap[id].type = "text" /\ Rewritable(heap, id)

C10_IncrementalScan ==
  [][ \A o \in 1..Len(observers) :
        IncrementalScan(o) =>
          /\ processed(heap', page.element)
          /\ \A id \in subtree(heap', page.element) :
               heap'[id].type = "text" => ~Rewritable(heap', id)
          /\ \A id \in 1..Len(heap) :
               (heap[id].type = "element" /\ id \notin subtree(heap, page.element))
                  => processed(heap', id) = processed(heap, id) ]_vars

(***************************************************************************)
(* Claims about matching (SpecRewrite)                                     *)
(***************************************************************************)
\* the package of the translator
thePackage == Packages[translator.gamePackage]

(***************************************************************************)
(* C11.  Case sensitivity: with settings.caseSensitive = false a text that *)
(* holds a translated source term in another letter case is matched and    *)
(* rewritten; with caseSensitive = true a text that holds no source term   *)
(* in its exact case is not rewritten.                                     *)
(***************************************************************************)
matchesIgnoringCase ==
  \E term \in SourceTerms : includes(lowerCase(page.text), lowerCase(term.word))
matchesExactly == \E term \in SourceTerms : includes(page.text, term.word)

C11_CaseSensitivity ==
  (rewrite = "done" /\ "settings" \in DOMAIN thePackage) =>
     /\ (~thePackage.settings.caseSensitive.boolean /\ matchesIgnoringCase) => Replaced
     /\ (thePackage.settings.caseSensitive.boolean /\ ~matchesExactly) => ~Replaced

(***************************************************************************)
(* C12.  A missing translation is skipped: a source term whose index has   *)
(* no entry, or an empty entry, in the target-language array (or whose     *)
(* target language has no array) is left as plain text and gets no keyword *)
(* span; when no translated term occurs the node is not touched.           *)
(***************************************************************************)
\* the source terms without a translation, as [lang, index, word]
UntranslatedTerms ==
  LET langs == {lang \in DOMAIN thePackage.conversionTable : lang # translator.targetLang}
  IN { [lang |-> lang, index |-> i, word |-> thePackage.conversionTable[lang][i]] :
       <<lang, i>> \in {<<l, j>> \in langs \X (1..3) :
                          /\ j <= Len(thePackage.conversionTable[l])
                          /\ thePackage.conversionTable[l][j] # <<>>
                          /\ entryAt(tableGet(thePackage.conversionTable, translator.targetLang), j) = <<>>} }

\* the text nodes of the document that are not inside a keyword span
plainTexts ==
  SelectSeq(documentTexts, LAMBDA id : ~classListContains(heap[heap[id].parentNode], kwClass))

\* the term stands on its own: it is part of no translated term or translation
standsAlone(word) ==
  \A term \in SourceTerms : ~includes(term.word, word) /\ ~includes(term.translation, word)

C12_MissingTranslationSkipped ==
  rewrite = "done" =>
     /\ ~matchesExactly =>
          /\ ~Replaced
          /\ keywordSpans = <<>>
          /\ textContent(heap, body) = page.text
     /\ \A term \in UntranslatedTerms :
          (includes(page.text, term.word) /\ standsAlone(term.word)) =>
             /\ \E k \in 1..Len(plainTexts) : includes(heap[plainTexts[k]].data, term.word)
             /\ \A k \in 1..Len(keywordSpans) :
                  /\ textContent(heap, keywordSpans[k]) # <<>>
                  /\ ~includes(textContent(heap, keywordSpans[k]), term.word)

\* a text with a translated and an untranslated term was rewritten
C12_Witness ==
  /\ Replaced
  /\ \E term \in UntranslatedTerms : includes(page.text, term.word) /\ standsAlone(term.word)

(***************************************************************************)
(* C13.  Definition fallback: an occurrence of the term at index i of      *)
(* source language S carries the target-language definition at index i,    *)
(* else the definition of S at index i, else none; and                     *)
(* TranslationService.getTranslation returns that same definition for the  *)
(* term.                                                                   *)
(***************************************************************************)
\* the indices at which the term asked for is a translated term of its
\* source language, in a package that has settings (findBestMatch reads
\* settings.caseSensitive)
serviceTermIndices ==
  IF service.gamePackage = NoPackage \/ ~service.called THEN {}
  ELSE LET pkg == Packages[service.gamePackage]
       IN {i \in 1..Len(tableGet(pkg.conversionTable, service.sourceLang)) :
             /\ "settings" \in DOMAIN pkg
             /\ service.sourceLang # service.targetLang
             /\ service.term # <<>>
             /\ pkg.conversionTable[service.sourceLang][i] = service.term
             /\ entryAt(tableGet(pkg.conversionTable, service.targetLang), i) # <<>>}

C13_DefinitionFallback ==
  \A i \in serviceTermIndices :
     /\ service.result.found
     /\ service.result.definition =
          definitionFor(Packages[service.gamePackage], service.targetLang,
                        service.sourceLang, i)

(***************************************************************************)
(* C14.  Skipped containers: the text of a script element, a style element *)
(* or a contentEditable element is never rewritten, so such an element of  *)
(* the document never holds a keyword span.                                *)
(***************************************************************************)
contentEditableAttr == <<"c","o","n","t","e","n","t","e","d","i","t","a","b","l","e">>

\* the element is one whose text a scan has to leave alone
skippedContainer(h, id) ==
  /\ h[id].type = "element"
  /\ \/ h[id].tagName \in {scriptTag, styleTag}
     \/ \E a \in 1..Len(h[id].attributes) : h[id].attributes[a].name = contentEditableAttr

C14_SkippedContainers ==
  \A id \in 1..Len(heap) :
     (skippedContainer(heap, id) /\ inDocument(heap, id)) =>
        \A k \in 1..Len(heap[id].childNodes) :
           ~classListContains(heap[heap[id].childNodes[k]], kwClass)

(***************************************************************************)
(* C15.  Validator.validateGamePackage, for a package with metadata (name, *)
(* version, languages) and both tables given as arrays: isValid is false   *)
(* with the matching error when (a) two conversionTable arrays differ in   *)
(* length, (b) a definitionTable array is longer than the conversionTable  *)
(* array of its language, or (c) the definitionTable names a language the  *)
(* conversionTable lacks; isValid is true exactly when there is no error,  *)
(* and there is none when (a)-(c) do not hold and settings is absent or    *)
(* well typed.                                                             *)
(***************************************************************************)
validated == validation.package

unequalLengths ==
  \E l1, l2 \in DOMAIN validated.conversionTable :
     Len(validated.conversionTable[l1]) # Len(validated.conversionTable[l2])
definitionLanguages ==
  IF "definitionTable" \in DOMAIN validated THEN DOMAIN validated.definitionTable ELSE {}
tooManyDefinitions(lang) ==
  /\ lang \in definitionLanguages
  /\ lang \in DOMAIN validated.conversionTable
  /\ Len(validated.definitionTable[lang]) > Len(validated.conversionTable[lang])
unknownLanguage(lang) ==
  /\ lang \in definitionLanguages
  /\ lang \notin DOMAIN validated.conversionTable
settingsWellTyped ==
  \/ "settings" \notin DOMAIN validated
  \/ /\ DOMAIN validated.settings = {"caseSensitive", "enablePartialMatch", "tooltipDelay"}
     /\ DOMAIN validated.settings.caseSensitive = {"boolean"}
     /\ DOMAIN validated.settings.enablePartialMatch = {"boolean"}
     /\ DOMAIN validated.settings.tooltipDelay = {"number"}

\* the package the rules are stated for
wellFormedInput ==
  /\ validation.called
  /\ "metadata" \in DOMAIN validated
  /\ DOMAIN validated.metadata = {"name", "version", "languages"}
  /\ validated.metadata.name # <<>> /\ validated.metadata.version # <<>>
  /\ "conversionTable" \in DOMAIN validated

C15_ValidatorRules ==
  wellFormedInput =>
    LET result == validation.result
    IN /\ ~result.threw
       /\ result.isValid <=> (result.errors = {})
       /\ unequalLengths =>
            /\ ~result.isValid
            /\ error("Inconsistent term array lengths across languages", "") \in result.errors
       /\ \A lang \in definitionLanguages :
            /\ tooManyDefinitions(lang) =>
                 /\ ~result.isValid
                 /\ error("Too many definitions for language", lang) \in result.errors
            /\ unknownLanguage(lang) =>
                 /\ ~result.isValid
                 /\ error("Definition table contains unknown language", lang) \in result.errors
       /\ (/\ ~unequalLengths
           /\ \A lang \in definitionLanguages :
                 ~tooManyDefinitions(lang) /\ ~unknownLanguage(lang)
           /\ settingsWellTyped) => result.isValid


(***************************************************************************)
(* C16.  Fail-fast load: after the upload of a file whose conversionTable  *)
(* arrays do not all have the same length, an error status is shown and    *)
(* the package is not in chrome.storage.local.gamePackage.                 *)
(***************************************************************************)
uploaded == FileValues[popup.file.package]
uploadedObject == popup.uploads > 0 /\ popup.file.kind = "object"

unequalArrays(pkg) ==
  /\ "conversionTable" \in DOMAIN pkg
  /\ \E l1, l2 \in DOMAIN pkg.conversionTable :
        Len(pkg.conversionTable[l1]) # Len(pkg.conversionTable[l2])

ErrorStatuses ==
  {"Error: Error reading file", "Error: Unexpected token",
   "Error: Cannot read properties of null", "Error: Invalid package structure"}

C16_FailFastLoad ==
  (uploadedObject /\ unequalArrays(uploaded)) =>
     /\ popup.status \in ErrorStatuses
     /\ storage.gamePackage # popup.file.package

(***************************************************************************)
(* C17.  definitionTable is optional: after the upload of a file with a    *)
(* well-formed conversionTable and no definitionTable the package is the   *)
(* stored gamePackage and the status reports success.                      *)
(***************************************************************************)
C17_DefinitionTableOptional ==
  (/\ uploadedObject
   /\ "conversionTable" \in DOMAIN uploaded
   /\ ~unequalArrays(uploaded)
   /\ "definitionTable" \notin DOMAIN uploaded) =>
     /\ popup.status = "Game package loaded successfully!"
     /\ storage.gamePackage = popup.file.package

(***************************************************************************)
(* C18.  A rejected upload leaves the state unchanged: when the file       *)
(* cannot be read, is not JSON, or fails the structure check, the handler  *)
(* leaves chrome.storage.local as it was, raises no storage event, calls   *)
(* no notifyContentScript, and shows the error in the status text.         *)
(***************************************************************************)
rejectedFile(file) ==
  \/ file.kind \in {"unreadable", "malformed", "null"}
  \/ /\ file.kind = "object"
     /\ \/ "conversionTable" \notin DOMAIN FileValues[file.package]
        \/ "definitionTable" \notin DOMAIN FileValues[file.package]

C18_RejectedUploadKeepsState ==
  [][(popup'.uploads = popup.uploads + 1 /\ rejectedFile(popup'.file)) =>
       /\ storage' = storage
       /\ storageEvents' = storageEvents
       /\ messages' = messages
       /\ popup'.notifies = popup.notifies
       /\ popup'.status \in ErrorStatuses]_vars

\* a file was rejected while a package was stored
C18_Witness ==
  /\ popup.uploads > 0 /\ rejectedFile(popup.file)
  /\ popup.status \in ErrorStatuses
  /\ storage.gamePackage # NoPackage

(***************************************************************************)
(* C19.  The settings load gates the state machine: until storage.get of   *)
(* init has resolved, and for ever if it fails, the translator is          *)
(* disabled, has made no scan, has created no MutationObserver, and has    *)
(* received no storage event and no message (it has no listener); the      *)
(* document is as the page wrote it.                                       *)
(***************************************************************************)
C19_SettingsLoadGates ==
  translator.pc \in {"loading", "failed"} =>
     /\ ~translator.isEnabled
     /\ translator.observer = 0 /\ observers = <<>>
     /\ scan.count = 0 /\ lastOp = "none"
     /\ storageEvents = <<>> /\ messages = <<>>
     /\ keywordSpans = <<>>
     /\ textContent(heap, body) = page.text

\* the load failed, and afterwards the popup switched translation on with a
\* package in storage
C19_Witness ==
  /\ translator.pc = "failed"
  /\ storage.isEnabled /\ storage.gamePackage # NoPackage
  /\ popup.clicks > 0 /\ PopupIdle

(***************************************************************************)
(* C20.  Scan errors are isolated: no handler of the translator ends with  *)
(* an exception of translateTextNode, neither one that leaves the handler  *)
(* (thrown) nor one that the message listener catches after the exception  *)
(* has ended the scan pass (caught); a text node that raises is skipped    *)
(* and the pass goes on.                                                   *)
(***************************************************************************)
C20_ScanErrorsIsolated == lastOp \notin {"thrown", "caught"}

(***************************************************************************)
(* C21.  Burst tolerance: in one call of the MutationObserver callback,    *)
(* whatever the records of the batch, no text node is passed to            *)
(* translateTextNode more than once.                                       *)
(***************************************************************************)
C21_BurstTolerance == ~scan.double

(***************************************************************************)
(* C22.  Teardown: a handler that calls stopTranslation (the storage       *)
(* listener for isEnabled = false, the message listener for                *)
(* toggleTranslation with state false) leaves this.observer null, the      *)
(* observer it referenced disconnected with no record pending, and no      *)
(* element of the document with the processed marker.                      *)
(***************************************************************************)
StopStep ==
  \/ /\ StorageChanged
     /\ Head(storageEvents).key = "isEnabled" /\ Head(storageEvents).newValue = FALSE
  \/ /\ MessageReceived
     /\ Head(messages).action = "toggleTranslation" /\ ~Head(messages).state

C23_TranslateTextTerminates ==
  (service.run.pc = "loop") ~> (service.run.pc \in {"returned", "long"})

(***************************************************************************)
(* C26.  The service-based pipeline translates: when                       *)
(* DOMService.translateTextNode has handled a text node whose text holds a *)
(* term of a language other than the target language, with a target entry *)
(* at the same index, the node has been replaced and the replacement shows *)
(* the target-language term (for a package that has settings).             *)
(***************************************************************************)
servicePackage == Packages[service.gamePackage]

\* the (language, index) of the source terms found in the input of the run
sourceTermsInInput ==
  {t \in (DOMAIN servicePackage.conversionTable \ {service.targetLang}) \X (1..3) :
     /\ "settings" \in DOMAIN servicePackage
     /\ t[2] <= Len(servicePackage.conversionTable[t[1]])
     /\ servicePackage.conversionTable[t[1]][t[2]] # <<>>
     /\ includes(service.run.input, servicePackage.conversionTable[t[1]][t[2]])
     /\ entryAt(tableGet(servicePackage.conversionTable, service.targetLang), t[2]) # <<>>}

C26_ServicePipelineTranslates ==
  (service.run.pc = "returned" /\ service.run.caller = "dom") =>
     \A t \in sourceTermsInInput :
        /\ service.run.replaced
        /\ includes(service.run.html, servicePackage.conversionTable[service.targetLang][t[2]])

(***************************************************************************)
(* C27.  A missing translation in translateText: what a call of            *)
(* translateText has inserted into the text is a term of the target        *)
(* language, and so is every key of translations; where the target array   *)
(* has no entry for the matched term nothing is inserted.                  *)
(***************************************************************************)
targetTerms ==
  LET terms == tableGet(servicePackage.conversionTable, service.targetLang)
  IN {terms[k] : k \in 1..Len(terms)}

C27_MissingTranslationInText ==
  service.run.caller = "api" =>
     /\ service.run.inserted \subseteq targetTerms
     /\ \A k \in 1..Len(service.run.translations) :
          service.run.translations[k].key \in targetTerms

(***************************************************************************)
(* C24  At every moment at most one MutationObserver the translator has    *)
(* created is connected to document.body, and it is the one this.observer  *)
(* references.                                                             *)
(***************************************************************************)
C24_SingleObserver ==
  \A o \in 1..Len(observers) :
     observers[o].connected => translator.observer = o


(***************************************************************************)
(* C25  No toggle is lost: whenever the callbacks of the toggle button     *)
(* interleave with clicks, each get callback flips the stored isEnabled,   *)
(* and leaves the button label and the message it queues for the tab in    *)
(* agreement with the stored value; so n handled clicks flip it n times.   *)
(***************************************************************************)
C25_NoLostToggle ==
  [][Len(popup'.gets) < Len(popup.gets) =>
       /\ storage'.isEnabled = ~storage.isEnabled
       /\ popup'.label = storage'.isEnabled
       /\ popup'.sends # <<>>
       /\ popup'.sends[Len(popup'.sends)] = storage'.isEnabled]_vars


(***************************************************************************)
(* C28  validateGamePackage returns {isValid, errors} for every package    *)
(* and never throws, whichever of metadata, conversionTable,               *)
(* definitionTable and settings is missing.                                *)
(***************************************************************************)
C28_ValidatorNeverThrows ==
  validation.called => ~validation.result.threw


(***************************************************************************)
(* C29  findBestMatch(text, sourceLang) returns the longest non-empty term *)
(* of sourceLang that occurs in text, with its table index and the offset  *)
(* of its first occurrence; among terms of equal length the first in the   *)
(* table wins; a term occurs case-sensitively when settings.caseSensitive  *)
(* is true and ignoring case when it is false (letter for letter where the *)
(* package has no settings); it returns null when no term occurs, when     *)
(* text is empty and when sourceLang is not in the table.                  *)
(***************************************************************************)
\* the terms of the language asked for
bestTerms ==
  IF service.gamePackage = NoPackage THEN <<>>
  ELSE LET pkg == Packages[service.gamePackage]
       IN IF service.best.sourceLang \in DOMAIN pkg.conversionTable
             /\ isArray(pkg, service.best.sourceLang)
          THEN pkg.conversionTable[service.best.sourceLang] ELSE <<>>

\* the text and a term as they are compared
bestFold(str) ==
  IF /\ service.gamePackage # NoPackage
     /\ "settings" \in DOMAIN Packages[service.gamePackage]
     /\ ~Packages[service.gamePackage].settings.caseSensitive.boolean
  THEN lowerCase(str) ELSE str

\* the indices of the non-empty terms that occur in the text
bestOccurring ==
  {j \in 1..Len(bestTerms) :
      /\ bestTerms[j] # <<>>
      /\ includes(bestFold(service.best.text), bestFold(bestTerms[j]))}

C29_FindBestMatch ==
  service.best.called =>
    LET match == service.best.match
    IN IF bestOccurring = {} THEN ~match.found
       ELSE /\ match.found
            /\ match.index \in bestOccurring
            /\ match.term = bestTerms[match.index]
            /\ \A j \in bestOccurring :
                  \/ Len(bestTerms[j]) < Len(match.term)
                  \/ Len(bestTerms[j]) = Len(match.term) /\ match.index <= j
            /\ startsWithAt(bestFold(service.best.text), bestFold(match.term),
                            match.position + 1)
            /\ \A k \in 1..match.position :
                  ~startsWithAt(bestFold(service.best.text), bestFold(match.term), k)


(***************************************************************************)
(* C30  sendMessageToContentScript sends the message only when the tab is  *)
(* in readyTabs or has just answered the ping with success, or after an    *)
(* injection that succeeded; it injects only when the readiness check      *)
(* failed; when the injection fails the call rejects and the message is    *)
(* never sent; a tab enters readyTabs only on a contentScriptReady message *)
(* from it or on its successful ping, and leaves it when it is closed.     *)
(***************************************************************************)
C30_SendWhenReady ==
  [][LET call == background.call
         after == background'.call
         tab == after.tabId
         sentNow == IF background'.event.kind = "call" THEN after.sent = 1
                    ELSE after.sent > call.sent
     IN /\ sentNow =>
              \/ tab \in background.readyTabs /\ after.ping = "none" /\ after.inject = "none"
              \/ after.ping = "success" /\ after.inject = "none"
              \/ after.inject = "resolved"
        /\ after.sent <= 1
        /\ after.pc \in {"inject", "wait"} \/ after.inject # "none" =>
              after.ping \in {"failure", "undefined", "rejected"}
        /\ after.inject = "rejected" => after.pc = "rejected" /\ after.sent = 0
        /\ \A t \in background'.readyTabs \ background.readyTabs :
              \/ background'.event = [kind |-> "contentScriptReady", tab |-> t]
              \/ background'.event = [kind |-> "ping", tab |-> t] /\ after.ping = "success"
        /\ background'.event.kind = "removed" =>
              background'.event.tab \notin background'.readyTabs]_vars

\* a call whose ping failed has sent the message after a successful
\* injection, and another tab is in readyTabs
C30_Witness ==
  /\ background.call.sent = 1
  /\ background.call.ping = "rejected"
  /\ background.call.inject = "resolved"
  /\ background.readyTabs # {}


(***************************************************************************)
(* C31  Quiescence under self-triggered mutations: what translateTextNode  *)
(* inserts while the observer is active is delivered back to the callback; *)
(* after an insertion by the page the translator modifies the document     *)
(* finitely often and then stops, no record left to deliver; and a text    *)
(* inside an inserted keyword span is not rewritten again.                 *)
(***************************************************************************)
\* the nodes created in this step as children of nodes that were there
insertedNodes ==
  {id \in (Len(heap) + 1)..Len(heap') :
      heap'[id].parentNode \in 1..Len(heap) /\ inDocument(heap', id)}

InsertedAreDelivered ==
  \A o \in 1..Len(observers) :
     observers'[o].connected =>
        \A id \in insertedNodes :
           \E r \in 1..Len(observers'[o].records) :
              \E k \in 1..Len(observers'[o].records[r]) : observers'[o].records[r][k] = id

KeywordTextKept ==
  \A id \in 1..Len(heap) :
     (/\ heap[id].type = "text"
      /\ heap[id].parentNode # 0
      /\ classListContains(heap[heap[id].parentNode], kwClass)) => heap'[id] = heap[id]

=============================================================================
